---- MODULE Spec2Model ----
(***************************************************************************)
(* Model of the chat-service of souravs72/chat-app:                        *)
(*   - the HTTP handlers of routes.js (the Dispatcher) over the three      *)
(*     tables chats, chat_members and messages (the Store);                *)
(*   - the WebSocket registry of websocket.js (the Hub);                   *)
(*   - the Redis pub/sub layer and the RabbitMQ consumer of events.js.     *)
(* Every `await` of a handler is a step of its own, so that concurrent     *)
(* handlers interleave exactly where the event loop lets them.             *)
(***************************************************************************)
EXTENDS Integers, Sequences, FiniteSets, TLC

\* ---------------------------------------------------------------- bounds
MaxChats == 2
MaxMsgs == 2
MaxSessions == 2
MaxTyping == 1

Callers == {"A", "B"}
Users == {"A", "B", "X"}
Nodes == {"n1", "n2"}
ChatIds == 1..MaxChats
\* HTTP handlers in flight: one at a time (Spec), or two at once.
OneAtATime == {1}
TwoAtOnce == {1, 2}
\* A session is a user's k-th socket.
SessionIds == Users \X (1..MaxSessions)

VARIABLES
  chats,             \* table chats: id -> type ("none" when the row is absent)
  chat_members,      \* table chat_members: (chat, user) -> "absent" | "open" | "blocked"
  messages,          \* table messages, in insert (created_at) order
  uuids,             \* number of chat identifiers uuidv4() has handed out
  reqs,              \* the HTTP handlers in flight, one record per slot
  connectedClients,  \* websocket.js: node -> user -> set of sessions
  userSubscriptions, \* websocket.js: node -> set of users
  channelHandlers,   \* events.js: node -> users whose channel has a handler
  redisSubs,         \* the channels Redis holds for each node's subscriber
  redisCmds,         \* subscribe/unsubscribe calls awaiting their reply, per node
  pubsub,            \* node -> isPubSubAvailable()
  inbox,             \* node -> user channel -> messages Redis has sent to the node
  frames,            \* session -> the frames written to it, in order
  amqpChannel,       \* node -> the broker channel is set
  bus,               \* the queue chat_service_queue
  tasks,             \* consumer callbacks awaiting their member lookup
  typingCount,       \* typing frames the clients have sent
  pubCount,          \* ghost: Redis publishes made for each broadcastToUser call
  faults,            \* ghost: a Store, Redis or broker call has failed
  audience,          \* ghost: the sessions that were settled when the client typed
  history,           \* the GET /api/chats/:chatId/messages request and its answer
  clientStore,       \* useChatStore.ts: messages and lastMessages of one client
  server,            \* part_005: node -> how far the process is in gracefulShutdown
  gateway,           \* the gateway's rate limiter: its Redis sorted set and the requests in it
  cache              \* the Redis keys chat:<id>, chatlist:<user>, messages:<..> of ChatCacheService

storeVars == <<chats, chat_members, messages, uuids>>
hubVars == <<connectedClients, userSubscriptions, channelHandlers, redisSubs, redisCmds, pubsub>>
wireVars == <<inbox, frames, pubCount>>
busVars == <<amqpChannel, bus, tasks, typingCount>>
ghostVars == <<faults, audience>>
clientVars == <<history, clientStore>>
procVars == <<server, gateway>>
vars == <<chats, chat_members, messages, uuids, reqs, connectedClients,
          userSubscriptions, channelHandlers, redisSubs, redisCmds, pubsub,
          inbox, frames, amqpChannel, bus, tasks, typingCount, pubCount,
          faults, audience, history, clientStore, cache, server, gateway>>

\* ----------------------------------------------------------------- Store
IsMember(c, u) == chat_members[c][u] # "absent"
Blocked(c, u) == chat_members[c][u] = "blocked"
Members(c) == {u \in Users : IsMember(c, u)}

\* The self-join of routes.js:142-150 and 290-298: personal chats with a
\* membership row of `a` and a membership row of `b` (the same row when a = b).
PersonalChatsOf(a, b) ==
  {c \in ChatIds : chats[c] = "personal" /\ IsMember(c, a) /\ IsMember(c, b)}

\* memberCheck.rows.length === 0
NoMemberRowMutant(c, u) == FALSE
NoMemberRowLax(c, u) == chats[c] = "none"
NoMemberRow(c, u) == ~IsMember(c, u)

IdleReq == [op |-> "idle", pc |-> "idle", user |-> "-", other |-> "-",
            chat |-> 0, msg |-> 0, status |-> 0, cleared |-> FALSE]
Free(r) == reqs[r].pc \in {"idle", "done"}
Respond(r, code) == [reqs EXCEPT ![r].pc = "done", ![r].status = code]
Goto(r, pc) == [reqs EXCEPT ![r].pc = pc]

StorePcs == {"cp_find", "cp_chat", "cp_m1", "cp_m2",
             "su_blocked", "su_find", "su_chat", "su_m1", "su_m2",
             "su_update", "su_insert", "su_post",
             "sc_check", "sc_update", "sc_insert", "sc_post",
             "bl_check", "bl_other", "bl_update", "ub_check", "ub_update"}

\* pool.query rejects: the handler's catch block answers 500.
QueryFails(r) ==
  /\ reqs[r].pc \in StorePcs
  /\ reqs' = Respond(r, 500)
  /\ faults' = TRUE
  /\ UNCHANGED <<storeVars, hubVars, clientVars, cache, procVars, wireVars, busVars, audience>>

\* -------------------------------------------------------------- Process
\* Each node runs; no request has come to the gateway.
Running == [pc |-> "running", timer |-> FALSE, refused |-> <<>>, code |-> <<>>]
NoGateway == [zset |-> {}, now |-> 0, calls |-> <<>>, allowed |-> <<>>, denied |-> <<>>]

\* ------------------------------------------------------------- Gateway
\* RateLimiter.checkLimit for one identifier.  zset is the sorted set
\* ratelimit:<key>, a set of [member, score]; now is Date.now(); calls are
\* the requests in the middleware; allowed and denied list the timestamps
\* of the requests passed on and of those answered 429.
MaxRequests == 4
MaxTime == 2
\* userLimit and userWindowMs, scaled down
Limit == 2
WindowMs == 2

IdleCall == [pc |-> "idle", now |-> 0, count |-> 0]
GatewayUnchanged ==
  UNCHANGED <<storeVars, reqs, hubVars, clientVars, cache, server, wireVars, busVars, audience>>
Issued == Len(gateway.allowed) + Len(gateway.denied)
  + Cardinality({k \in DOMAIN gateway.calls : gateway.calls[k].pc # "idle"})

\* const now = Date.now()
RlStart(k) ==
  /\ gateway.calls[k].pc = "idle"
  /\ Issued < MaxRequests
  /\ gateway' = [gateway EXCEPT !.calls[k] = [pc |-> "rem", now |-> gateway.now, count |-> 0]]
  /\ UNCHANGED faults
  /\ GatewayUnchanged

\* zRemRangeByScore(redisKey, 0, windowStart)
RlRemove(k) ==
  /\ gateway.calls[k].pc = "rem"
  /\ gateway' = [gateway EXCEPT
        !.zset = {e \in @ : e.score > gateway.calls[k].now - WindowMs},
        !.calls[k].pc = "card"]
  /\ UNCHANGED faults
  /\ GatewayUnchanged

\* const count = await this.redis.zCard(redisKey)
RlCard(k) ==
  /\ gateway.calls[k].pc = "card"
  /\ gateway' = [gateway EXCEPT
        !.calls[k].count = Cardinality(gateway.zset),
        !.calls[k].pc = IF Cardinality(gateway.zset) >= Limit THEN "range" ELSE "add"]
  /\ UNCHANGED faults
  /\ GatewayUnchanged

\* count >= limit: zRangeWithScores, allowed: false, and the middleware
\* answers 429
RlRange(k) ==
  /\ gateway.calls[k].pc = "range"
  /\ gateway' = [gateway EXCEPT
        !.denied = Append(@, gateway.calls[k].now),
        !.calls[k] = IdleCall]
  /\ UNCHANGED faults
  /\ GatewayUnchanged

\* zAdd(redisKey, { [member]: now }), the member made unique by a random
\* suffix
RlAdd(k) ==
  /\ gateway.calls[k].pc = "add"
  /\ gateway' = [gateway EXCEPT
        !.zset = @ \cup {[member |-> <<gateway.calls[k].now, Issued, k>>,
                          score |-> gateway.calls[k].now]},
        !.calls[k].pc = "expire"]
  /\ UNCHANGED faults
  /\ GatewayUnchanged

\* expire(redisKey, ..), allowed: true, and the middleware calls next().
\* (The key outlives every score that is still inside the window.)
RlExpire(k) ==
  /\ gateway.calls[k].pc = "expire"
  /\ gateway' = [gateway EXCEPT
        !.allowed = Append(@, gateway.calls[k].now),
        !.calls[k] = IdleCall]
  /\ UNCHANGED faults
  /\ GatewayUnchanged

\* A Redis call rejects: the catch block allows the request (fail open).
RlFails(k) ==
  /\ gateway.calls[k].pc \in {"rem", "card", "range", "add", "expire"}
  /\ gateway' = [gateway EXCEPT
        !.allowed = Append(@, gateway.calls[k].now),
        !.calls[k] = IdleCall]
  /\ faults' = TRUE
  /\ GatewayUnchanged

\* Time passes.
Tick ==
  /\ gateway.now < MaxTime
  /\ gateway' = [gateway EXCEPT !.now = @ + 1]
  /\ UNCHANGED faults
  /\ GatewayUnchanged
InitProc ==
  /\ server = [n \in Nodes |-> Running]
  /\ gateway = NoGateway

\* ---------------------------------------------------------------- Cache
\* ChatCacheService: chat[c] is the value of key chat:<c> (the chat with
\* its member rows), list[u] the value of chatlist:<u>, {} when the key
\* is absent; messages holds the messages:<chat>:<limit>:<before> keys.
InitCache ==
  cache = [chat |-> [c \in ChatIds |-> {}],
           list |-> [u \in Users |-> {}],
           messages |-> {}]

\* invalidateChatListForUsers(userIds)
DelChatLists(users) ==
  [cache EXCEPT !.list = [u \in Users |-> IF u \in users THEN {} ELSE @[u]]]

\* invalidateMessages(chatId): the keys messages:<chatId>:*
DelMessages(c) == [cache EXCEPT !.messages = {e \in @ : e.key[1] # c}]

\* A write to the cache: it may fail, and the error is swallowed.
CacheWrite(after) == cache' \in {cache, after}

\* -------------------------------------------------------------- History
\* The GET handlers.  A query parameter is <<>> when it is absent and <<v>>
\* when it is given.  The rows of an answer are positions in `messages`;
\* its data is {} or holds the chat (or chat list) of the answer; found is
\* the result of the first query of GET /api/chats; since is the request
\* slot as it was when the GET came in.
NoHistory == [op |-> "-", pc |-> "idle", user |-> "-", chat |-> 0, limit |-> <<>>,
              before |-> <<>>, status |-> 0, rows |-> <<>>, data |-> {},
              found |-> {}, since |-> <<>>]

\* const { limit = 50, before } = req.query
DefaultLimit == 50
MaxLimit == 100

\* parseInt(limit), the value pushed as the LIMIT parameter of the query
SqlLimit(limit) == IF limit = <<>> THEN DefaultLimit ELSE limit[1]

\* Math.min(parseInt(limit) || 50, 100): used for the cache key only
limitNum(limit) ==
  LET n == IF SqlLimit(limit) = 0 THEN DefaultLimit ELSE SqlLimit(limit)
  IN IF n < MaxLimit THEN n ELSE MaxLimit

\* chatCache.getMessages(chatId, limitNum, before || null): the key
\* messages:<chat>:<limit>:<before|latest>.  Nothing calls
\* chatCache.setMessages, so the service itself never writes such a key.
CacheKey(c, limit, before) == <<c, limitNum(limit), before>>

\* created_at TIMESTAMP DEFAULT CURRENT_TIMESTAMP of row i
created_at(i) == messages[i].created_at

\* ORDER BY m.created_at DESC LIMIT need, then messages.reverse(): the lists
\* of rows, oldest first, that the query may return.  The query names no
\* order among rows of one created_at, so each of them may come first.
RECURSIVE TakeDesc(_, _)
TakeDesc(rows, need) ==
  IF rows = {} \/ need = 0 THEN {<<>>}
  ELSE LET top == CHOOSE t \in {created_at(i) : i \in rows} :
                    \A j \in rows : created_at(j) <= t
       IN UNION {{Append(older, m) : older \in TakeDesc(rows \ {m}, need - 1)} :
                   m \in {i \in rows : created_at(i) = top}}

MessagesQueryMutant(c, limit, before) ==
  TakeDesc({i \in 1..Len(messages) :
              /\ messages[i].chat = c
              /\ before # <<>> => created_at(i) <= before[1]},
           SqlLimit(limit))

\* WHERE m.chat_id = $1 [AND m.created_at < $2]
MessagesQuery(c, limit, before) ==
  TakeDesc({i \in 1..Len(messages) :
              /\ messages[i].chat = c
              /\ before # <<>> => created_at(i) < before[1]},
           SqlLimit(limit))

GetUnchanged == UNCHANGED <<storeVars, reqs, hubVars, wireVars, busVars, audience, clientStore, procVars>>

NewGet(op, pc, u, c) ==
  [NoHistory EXCEPT !.op = op, !.pc = pc, !.user = u, !.chat = c, !.since = <<reqs>>]
Answer(code) == [history EXCEPT !.pc = "done", !.status = code]

StartGetMessages(u, c, limit, before) ==
  /\ history.pc \in {"idle", "done"}
  /\ history' = [NewGet("gm", "gm_check", u, c) EXCEPT !.limit = limit, !.before = before]
  /\ UNCHANGED <<faults, cache>>
  /\ GetUnchanged

GmCheck ==
  /\ history.pc = "gm_check"
  /\ history' = IF NoMemberRow(history.chat, history.user)
                THEN Answer(403)
                ELSE [history EXCEPT !.pc = "gm_cache"]
  /\ UNCHANGED <<faults, cache>>
  /\ GetUnchanged

\* A key that is there is answered from; a key that is absent, or that
\* cannot be read (the error is swallowed), sends the handler to the Store.
GmCache ==
  /\ history.pc = "gm_cache"
  /\ \/ \E e \in cache.messages :
          /\ e.key = CacheKey(history.chat, history.limit, history.before)
          /\ history' = [Answer(200) EXCEPT !.rows = e.rows]
     \/ history' = [history EXCEPT !.pc = "gm_query"]
  /\ UNCHANGED <<faults, cache>>
  /\ GetUnchanged

GmQuery ==
  /\ history.pc = "gm_query"
  /\ \E rows \in MessagesQuery(history.chat, history.limit, history.before) :
       history' = [Answer(200) EXCEPT !.rows = rows]
  /\ UNCHANGED <<faults, cache>>
  /\ GetUnchanged

\* pool.query rejects in the member check or in the SELECT: 500.
GmFails ==
  /\ history.pc \in {"gm_check", "gm_query"}
  /\ history' = Answer(500)
  /\ faults' = TRUE
  /\ UNCHANGED cache
  /\ GetUnchanged

\* GET /api/chats/:chatId
StartGetChat(u, c) ==
  /\ history.pc \in {"idle", "done"}
  /\ history' = NewGet("gc", "gc_check", u, c)
  /\ UNCHANGED <<faults, cache>>
  /\ GetUnchanged

GcCheckMutant ==
  /\ history.pc = "gc_check"
  /\ history' = [history EXCEPT !.pc = "gc_cache"]
  /\ UNCHANGED <<faults, cache>>
  /\ GetUnchanged

GcCheck ==
  /\ history.pc = "gc_check"
  /\ history' = IF NoMemberRow(history.chat, history.user)
                THEN Answer(403)
                ELSE [history EXCEPT !.pc = "gc_cache"]
  /\ UNCHANGED <<faults, cache>>
  /\ GetUnchanged

\* chatCache.getChat(chatId): the cached chat is the answer
GcCache ==
  /\ history.pc = "gc_cache"
  /\ \/ /\ cache.chat[history.chat] # {}
        /\ history' = [Answer(200) EXCEPT !.data = cache.chat[history.chat]]
     \/ history' = [history EXCEPT !.pc = "gc_chat"]
  /\ UNCHANGED <<faults, cache>>
  /\ GetUnchanged

\* SELECT * FROM chats WHERE id = $1
GcChat ==
  /\ history.pc = "gc_chat"
  /\ history' = IF chats[history.chat] = "none" THEN Answer(404)
                ELSE [history EXCEPT !.pc = "gc_members"]
  /\ UNCHANGED <<faults, cache>>
  /\ GetUnchanged

\* SELECT cm.* ... WHERE cm.chat_id = $1: chat.members
GcMembers ==
  /\ history.pc = "gc_members"
  /\ history' = [history EXCEPT !.pc = "gc_set", !.data = {chat_members[history.chat]}]
  /\ UNCHANGED <<faults, cache>>
  /\ GetUnchanged

\* chatCache.setChat(chatId, chat); res.json(chat)
GcSet ==
  /\ history.pc = "gc_set"
  /\ CacheWrite([cache EXCEPT !.chat[history.chat] = history.data])
  /\ history' = Answer(200)
  /\ UNCHANGED faults
  /\ GetUnchanged

GcFails ==
  /\ history.pc \in {"gc_check", "gc_chat", "gc_members"}
  /\ history' = [Answer(500) EXCEPT !.data = {}]
  /\ faults' = TRUE
  /\ UNCHANGED cache
  /\ GetUnchanged

\* GET /api/chats
StartGetChats(u) ==
  /\ history.pc \in {"idle", "done"}
  /\ history' = NewGet("gl", "gl_cache", u, 0)
  /\ UNCHANGED <<faults, cache>>
  /\ GetUnchanged

\* chatCache.getChatList(userId)
GlCache ==
  /\ history.pc = "gl_cache"
  /\ \/ /\ cache.list[history.user] # {}
        /\ history' = [Answer(200) EXCEPT !.data = cache.list[history.user]]
     \/ history' = [history EXCEPT !.pc = "gl_chats"]
  /\ UNCHANGED <<faults, cache>>
  /\ GetUnchanged

\* SELECT DISTINCT c.* FROM chats c INNER JOIN chat_members cm ...
GlChats ==
  /\ history.pc = "gl_chats"
  /\ history' = [history EXCEPT !.pc = "gl_members",
        !.found = {c \in ChatIds : chats[c] # "none" /\ IsMember(c, history.user)}]
  /\ UNCHANGED <<faults, cache>>
  /\ GetUnchanged

\* The member rows of each chat found; a personal chat whose only member
\* is the caller is filtered out.  The list gives each chat's rows, or {}.
GlMembers ==
  /\ history.pc = "gl_members"
  /\ history' = [history EXCEPT !.pc = "gl_set", !.data =
        {[c \in ChatIds |->
            IF /\ c \in history.found
               /\ ~(chats[c] = "personal" /\ Members(c) \ {history.user} = {})
            THEN {chat_members[c]} ELSE {}]}]
  /\ UNCHANGED <<faults, cache>>
  /\ GetUnchanged

\* chatCache.setChatList(userId, filteredChats); res.json(filteredChats)
GlSet ==
  /\ history.pc = "gl_set"
  /\ CacheWrite([cache EXCEPT !.list[history.user] = history.data])
  /\ history' = Answer(200)
  /\ UNCHANGED faults
  /\ GetUnchanged

GlFails ==
  /\ history.pc \in {"gl_chats", "gl_members"}
  /\ history' = [Answer(500) EXCEPT !.data = {}]
  /\ faults' = TRUE
  /\ UNCHANGED cache
  /\ GetUnchanged

\* setEx(key, CHAT_CACHE_TTL_SECONDS, ..): the key of a chat or of a chat
\* list expires.
CacheExpires ==
  /\ \/ \E c \in ChatIds :
          cache.chat[c] # {} /\ cache' = [cache EXCEPT !.chat[c] = {}]
     \/ \E u \in Users :
          cache.list[u] # {} /\ cache' = [cache EXCEPT !.list[u] = {}]
  /\ UNCHANGED <<storeVars, reqs, hubVars, clientVars, procVars, wireVars, busVars, ghostVars>>

\* --------------------------------------------------------- Client store
\* useChatStore.ts: messages (chatId -> list) and lastMessages (chatId ->
\* id, 0 when there is none).  A message is its id and its chatId.
Message(id, c) == [id |-> id, chatId |-> c]

InitClient ==
  /\ history = NoHistory
  /\ clientStore = [messages |-> [c \in ChatIds |-> <<>>],
                    lastMessages |-> [c \in ChatIds |-> 0]]

addMessageMutant(state, message) ==
  [messages |-> [state.messages EXCEPT ![message.chatId] = Append(@, message)],
   lastMessages |-> [state.lastMessages EXCEPT ![message.chatId] = message.id]]

addMessage(state, message) ==
  LET existingMessages == state.messages[message.chatId]
      messageExists == \E i \in 1..Len(existingMessages) :
                         existingMessages[i].id = message.id
  IN IF messageExists THEN state
     ELSE [messages |-> [state.messages EXCEPT ![message.chatId] = Append(@, message)],
           lastMessages |-> [state.lastMessages EXCEPT ![message.chatId] = message.id]]

ClientUnchanged == UNCHANGED <<storeVars, reqs, hubVars, wireVars, busVars, ghostVars, cache, procVars>>

\* addMessage(message), called with the payload of a MESSAGE_SENT frame
AddMessage(message) ==
  /\ clientStore' = addMessage(clientStore, message)
  /\ UNCHANGED history
  /\ ClientUnchanged

\* loadMessages(chatId), first half: apiClient.getMessages(chatId), a GET
\* with limit=50 and no before, as user u
LoadMessagesFetch(u, c) == StartGetMessages(u, c, <<DefaultLimit>>, <<>>)

\* loadMessages(chatId), second half: the answer has come and replaces the
\* list of the chat (an answer other than 200 rejects the promise).
LoadMessagesSet ==
  /\ history.pc = "done" /\ history.status = 200
  /\ clientStore' = [clientStore EXCEPT !.messages[history.chat] =
        [i \in 1..Len(history.rows) |->
           Message(messages[history.rows[i]].id, messages[history.rows[i]].chat)]]
  /\ history' = NoHistory
  /\ ClientUnchanged

\* ------------------------------------------------------- Hub and PubSub
\* An event as the server builds it: MESSAGE_SENT for message `id`
\* (kind "msg"), the TYPING_INDICATOR isTyping=false that follows a send
\* (kind "clear"), or the TYPING_INDICATOR of client typing frame `id`
\* (kind "typing"); src tells the path that built it ("direct": the HTTP
\* handler, "consumer": the RabbitMQ consumer).
Event(type, kind, id, src) == [type |-> type, kind |-> kind, id |-> id, src |-> src]
Call(u, e, ok) == [u |-> u, e |-> e, ok |-> ok]
Frame(e, via, from) == [e |-> e, via |-> via, from |-> from]

RECURSIVE SetToSeq(_)
SetToSeq(S) == IF S = {} THEN <<>>
               ELSE LET x == CHOOSE y \in S : TRUE IN <<x>> \o SetToSeq(S \ {x})

isPubSubAvailable(n) == pubsub[n]

\* broadcastToUserLocal for each call of `calls`, as seen by session s of
\* node n: the frames ws.send writes to it, in call order.
LocalFrames(n, s, calls) ==
  LET mine == SelectSeq(calls, LAMBDA c : s \in connectedClients[n][c.u])
  IN [i \in 1..Len(mine) |-> Frame(mine[i].e, "local", n)]

\* publishToUser for each call of `calls` made on node n: what Redis sends
\* on channel ws:user:u to node m (it holds the channel, the publish did
\* not fail).  The payload carries the publisher's instanceId.
Published(n, m, u, calls) ==
  IF isPubSubAvailable(n) /\ u \in redisSubs[m]
  THEN LET sent == SelectSeq(calls, LAMBDA c : c.u = u /\ c.ok)
       IN [i \in 1..Len(sent) |-> [e |-> sent[i].e, instanceId |-> n]]
  ELSE <<>>

CallKeys(calls) == {<<calls[i].e, calls[i].u>> : i \in 1..Len(calls)}
Attempts(calls, k) == Cardinality({i \in 1..Len(calls) : <<calls[i].e, calls[i].u>> = k})
CountOf(k) == IF k \in DOMAIN pubCount THEN pubCount[k] ELSE 0

BroadcastToUserMutant(n, calls) ==
  /\ frames' = IF isPubSubAvailable(n)
               THEN [s \in SessionIds |-> frames[s] \o LocalFrames(n, s, calls)]
               ELSE frames
  /\ inbox' = [m \in Nodes |-> [u \in Users |->
                  inbox[m][u] \o Published(n, m, u, calls)]]
  /\ pubCount' = IF isPubSubAvailable(n)
                 THEN [k \in DOMAIN pubCount \cup CallKeys(calls) |->
                         CountOf(k) + Attempts(calls, k)]
                 ELSE pubCount

\* broadcastToUser(u, e) on node n for each call, in order: the local
\* write first, then the Redis publish when pub/sub is available.
BroadcastToUser(n, calls) ==
  /\ frames' = [s \in SessionIds |-> frames[s] \o LocalFrames(n, s, calls)]
  /\ inbox' = [m \in Nodes |-> [u \in Users |->
                  inbox[m][u] \o Published(n, m, u, calls)]]
  /\ pubCount' = IF isPubSubAvailable(n)
                 THEN [k \in DOMAIN pubCount \cup CallKeys(calls) |->
                         CountOf(k) + Attempts(calls, k)]
                 ELSE pubCount

\* broadcastToUser(u, e) on node n when writes can fail: of u's sessions on
\* n, those of `shut` are not OPEN and ws.send throws for those of `bad`;
\* the per-session catch lets the loop go on, and the Redis publish follows
\* (ok: it does not reject).  The registry is not touched.
DeliverToUserMutant(n, u, e, bad, shut, ok) ==
  /\ bad \cup shut \subseteq connectedClients[n][u]
  /\ <<e, u>> \notin DOMAIN pubCount
  /\ frames' = [s \in SessionIds |->
                  IF s \in connectedClients[n][u] \ shut /\ \A b \in bad : s[2] < b[2]
                  THEN Append(frames[s], Frame(e, "local", n)) ELSE frames[s]]
  /\ IF bad = {}
     THEN /\ inbox' = [m \in Nodes |-> [v \in Users |->
                         inbox[m][v] \o Published(n, m, v, <<Call(u, e, ok)>>)]]
          /\ pubCount' = IF isPubSubAvailable(n)
                         THEN [k \in DOMAIN pubCount \cup {<<e, u>>} |-> CountOf(k) + 1]
                         ELSE pubCount
     ELSE UNCHANGED <<inbox, pubCount>>
  /\ faults' = (faults \/ ~ok \/ bad # {})
  /\ UNCHANGED <<storeVars, reqs, hubVars, clientVars, cache, procVars, busVars, audience>>

DeliverToUser(n, u, e, bad, shut, ok) ==
  /\ bad \cup shut \subseteq connectedClients[n][u]
  /\ <<e, u>> \notin DOMAIN pubCount
  /\ frames' = [s \in SessionIds |->
                  IF s \in connectedClients[n][u] \ (bad \cup shut)
                  THEN Append(frames[s], Frame(e, "local", n)) ELSE frames[s]]
  /\ inbox' = [m \in Nodes |-> [v \in Users |->
                  inbox[m][v] \o Published(n, m, v, <<Call(u, e, ok)>>)]]
  /\ pubCount' = IF isPubSubAvailable(n)
                 THEN [k \in DOMAIN pubCount \cup {<<e, u>>} |-> CountOf(k) + 1]
                 ELSE pubCount
  /\ faults' = (faults \/ ~ok \/ bad # {})
  /\ UNCHANGED <<storeVars, reqs, hubVars, clientVars, cache, procVars, busVars, audience>>

AnyFailed(calls) == \E i \in 1..Len(calls) : ~calls[i].ok

\* Every way the publishes of a list of calls can succeed or fail.
Outcomes(targets, evs) ==
  LET base == SetToSeq(targets)
      n == Len(base) * Len(evs)
      at(i) == [u |-> base[((i - 1) % Len(base)) + 1],
                e |-> evs[((i - 1) \div Len(base)) + 1]]
  IN {[i \in 1..n |-> Call(at(i).u, at(i).e, oks[i])] : oks \in [1..n -> BOOLEAN]}

\* publishEvent: the event joins chat_service_queue when the channel is set
\* and the publish does not throw.
PublishEvent(n, ev, ok) ==
  bus' = IF amqpChannel[n] /\ ok THEN Append(bus, ev) ELSE bus

\* ------------------------------------------------------------ Dispatcher
\* Events the queue holds at most while read receipts are published.
MaxBus == 2

SetBlocked(c, u, v) ==
  IF IsMember(c, u) THEN [chat_members EXCEPT ![c][u] = v] ELSE chat_members

NewReq(op, pc, u, o, c) ==
  [op |-> op, pc |-> pc, user |-> u, other |-> o, chat |-> c,
   msg |-> 0, status |-> 0, cleared |-> FALSE]

quiet == UNCHANGED <<hubVars, clientVars, cache, procVars, wireVars, busVars, ghostVars>>

\* INSERT INTO chats (id, type) VALUES (chatId, 'personal')
InsertChat(r, next) ==
  /\ chats' = [chats EXCEPT ![reqs[r].chat] = "personal"]
  /\ reqs' = Goto(r, next)
  /\ UNCHANGED <<chat_members, messages, uuids>>
  /\ quiet

\* INSERT INTO chat_members (chat_id, user_id): the primary key
\* (chat_id, user_id) rejects a second row of the same user.
\* After the last insert the handler deletes the chat-list keys of `users`.
InsertMember(r, u, after, users) ==
  /\ IF IsMember(reqs[r].chat, u)
     THEN reqs' = Respond(r, 500) /\ UNCHANGED <<chat_members, cache>>
     ELSE /\ chat_members' = [chat_members EXCEPT ![reqs[r].chat][u] = "open"]
          /\ reqs' = after
          /\ CacheWrite(DelChatLists(users))
  /\ UNCHANGED <<chats, messages, uuids>>
  /\ UNCHANGED <<hubVars, clientVars, procVars, wireVars, busVars, ghostVars>>

\* The find-or-create query and the uuidv4() that follows an empty result.
\* A found chat is rows[0] of a query with no ORDER BY: any of the rows.
FindOrCreate(r, a, b, found, create) ==
  /\ IF PersonalChatsOf(a, b) # {}
     THEN /\ \E c \in PersonalChatsOf(a, b) :
               reqs' = [reqs EXCEPT ![r].pc = found, ![r].chat = c,
                                    ![r].status = IF found = "done" THEN 200 ELSE 0]
          /\ UNCHANGED uuids
     ELSE /\ uuids < MaxChats
          /\ uuids' = uuids + 1
          /\ reqs' = [reqs EXCEPT ![r].pc = create, ![r].chat = uuids + 1]
  /\ UNCHANGED <<chats, chat_members, messages>>
  /\ quiet

\* POST /api/chats/personal
StartCreatePersonalChat(r, u, o) ==
  /\ Free(r)
  /\ reqs' = [reqs EXCEPT ![r] = NewReq("cp", "cp_find", u, o, 0)]
  /\ UNCHANGED storeVars
  /\ quiet

CpFindMutant(r) ==
  /\ reqs[r].pc = "cp_find"
  /\ uuids < MaxChats
  /\ uuids' = uuids + 1
  /\ reqs' = [reqs EXCEPT ![r].pc = "cp_chat", ![r].chat = uuids + 1]
  /\ UNCHANGED <<chats, chat_members, messages>>
  /\ quiet

CpFind(r) ==
  /\ reqs[r].pc = "cp_find"
  /\ FindOrCreate(r, reqs[r].user, reqs[r].other, "done", "cp_chat")

CpChat(r) == reqs[r].pc = "cp_chat" /\ InsertChat(r, "cp_m1")
CpM1(r) == reqs[r].pc = "cp_m1" /\ InsertMember(r, reqs[r].user, Goto(r, "cp_m2"), {})
CpM2(r) ==
  /\ reqs[r].pc = "cp_m2"
  /\ InsertMember(r, reqs[r].other, Respond(r, 200), {reqs[r].user, reqs[r].other})

\* UPDATE chat_members SET blocked = FALSE WHERE chat_id = .. AND user_id = ..
ClearBlocked(r, next) ==
  /\ chat_members' = SetBlocked(reqs[r].chat, reqs[r].user, "open")
  /\ reqs' = [reqs EXCEPT ![r].pc = next,
                          ![r].cleared = Blocked(reqs[r].chat, reqs[r].user)]
  /\ UNCHANGED <<chats, messages, uuids>>
  /\ quiet

\* INSERT INTO messages: the row gets the next created_at.  wasMember and
\* wasBlocked record the sender's membership row as it is at the insert.
InsertMessage(r, next) ==
  /\ Len(messages) < MaxMsgs
  /\ IF chats[reqs[r].chat] = "none"
     THEN reqs' = Respond(r, 500) /\ UNCHANGED messages
     ELSE /\ messages' = Append(messages,
                [id |-> Len(messages) + 1, chat |-> reqs[r].chat,
                 sender |-> reqs[r].user, op |-> reqs[r].op,
                 wasMember |-> IsMember(reqs[r].chat, reqs[r].user),
                 wasBlocked |-> Blocked(reqs[r].chat, reqs[r].user)])
          /\ reqs' = [reqs EXCEPT ![r].pc = next, ![r].msg = Len(messages) + 1]
  /\ UNCHANGED <<chats, chat_members, uuids>>
  /\ quiet

SentEvents(id) == <<Event("MESSAGE_SENT", "msg", id, "direct"),
                    Event("TYPING_INDICATOR", "clear", id, "direct")>>
BusEvent(type, id, c, u) == [type |-> type, id |-> id, chat |-> c, user |-> u]

EmitSentMutant(r, n, targets) ==
  /\ \E calls \in Outcomes(targets, SentEvents(reqs[r].msg)), ok \in BOOLEAN :
       /\ BroadcastToUser(n, calls)
       /\ PublishEvent(n, BusEvent("message.sent", reqs[r].msg, reqs[r].chat, reqs[r].user), ok)
       /\ faults' = (faults \/ ~ok \/ AnyFailed(calls))
       /\ reqs' = Respond(r, IF ok /\ ~AnyFailed(calls) THEN 200 ELSE 500)
  /\ UNCHANGED <<storeVars, hubVars, clientVars, cache, procVars, amqpChannel, tasks, typingCount, audience>>

\* The read-back of the row, invalidateMessages and the member list, then, in one synchronous
\* run on node n: the broadcasts, publishEvent('message.sent') and res.json.
EmitSent(r, n, targets) ==
  /\ \E calls \in Outcomes(targets, SentEvents(reqs[r].msg)), ok \in BOOLEAN :
       /\ BroadcastToUser(n, calls)
       /\ PublishEvent(n, BusEvent("message.sent", reqs[r].msg, reqs[r].chat, reqs[r].user), ok)
       /\ faults' = (faults \/ ~ok \/ AnyFailed(calls))
  /\ reqs' = Respond(r, 200)
  /\ CacheWrite(DelMessages(reqs[r].chat))
  /\ UNCHANGED <<storeVars, hubVars, clientVars, procVars, amqpChannel, tasks, typingCount, audience>>

\* POST /api/users/:userId/messages
StartSendToUser(r, u, o) ==
  /\ Free(r)
  /\ reqs' = [reqs EXCEPT ![r] =
                IF u = o THEN [NewReq("su", "done", u, o, 0) EXCEPT !.status = 400]
                ELSE NewReq("su", "su_blocked", u, o, 0)]
  /\ UNCHANGED storeVars
  /\ quiet

\* blockedCheck: the recipient's rows in personal chats the sender is in;
\* the handler looks at rows[0] only, and the query has no ORDER BY.
BlockedRows(recipient, sender) ==
  {c \in ChatIds : chats[c] = "personal" /\ IsMember(c, recipient) /\ IsMember(c, sender)}

SuBlocked(r) ==
  /\ reqs[r].pc = "su_blocked"
  /\ LET rows == BlockedRows(reqs[r].other, reqs[r].user) IN
       IF rows = {} THEN reqs' = Goto(r, "su_find")
       ELSE \E c \in rows : reqs' = IF Blocked(c, reqs[r].other)
                                    THEN Respond(r, 403) ELSE Goto(r, "su_find")
  /\ UNCHANGED storeVars
  /\ quiet

SuFind(r) ==
  /\ reqs[r].pc = "su_find"
  /\ FindOrCreate(r, reqs[r].user, reqs[r].other, "su_update", "su_chat")

SuChat(r) == reqs[r].pc = "su_chat" /\ InsertChat(r, "su_m1")
SuM1(r) == reqs[r].pc = "su_m1" /\ InsertMember(r, reqs[r].user, Goto(r, "su_m2"), {})
SuM2Mutant(r) ==
  reqs[r].pc = "su_m2" /\ reqs' = Goto(r, "su_update") /\ UNCHANGED storeVars /\ quiet
SuM2(r) ==
  /\ reqs[r].pc = "su_m2"
  /\ InsertMember(r, reqs[r].other, Goto(r, "su_update"), {reqs[r].user, reqs[r].other})
SuUpdate(r) == reqs[r].pc = "su_update" /\ ClearBlocked(r, "su_insert")
SuInsertMutant(r) ==
  reqs[r].pc = "su_insert" /\ reqs' = Goto(r, "su_post") /\ UNCHANGED storeVars /\ quiet
SuInsert(r) == reqs[r].pc = "su_insert" /\ InsertMessage(r, "su_post")
SuPost(r, n) == reqs[r].pc = "su_post" /\ EmitSent(r, n, {reqs[r].other})

\* POST /api/chats/:chatId/messages
StartSendToChat(r, u, c) ==
  /\ Free(r)
  /\ reqs' = [reqs EXCEPT ![r] = NewReq("sc", "sc_check", u, "-", c)]
  /\ UNCHANGED storeVars
  /\ quiet

ScCheckMutant(r) ==
  /\ reqs[r].pc = "sc_check"
  /\ reqs' = IF NoMemberRow(reqs[r].chat, reqs[r].user) THEN Respond(r, 403)
             ELSE Goto(r, "sc_update")
  /\ UNCHANGED storeVars
  /\ quiet
ScCheck(r) ==
  /\ reqs[r].pc = "sc_check"
  /\ reqs' = IF NoMemberRow(reqs[r].chat, reqs[r].user) THEN Respond(r, 403)
             ELSE IF Blocked(reqs[r].chat, reqs[r].user) THEN Respond(r, 403)
             ELSE Goto(r, "sc_update")
  /\ UNCHANGED storeVars
  /\ quiet

ScUpdate(r) == reqs[r].pc = "sc_update" /\ ClearBlocked(r, "sc_insert")
ScInsert(r) == reqs[r].pc = "sc_insert" /\ InsertMessage(r, "sc_post")
ScPostMutant(r, n) ==
  reqs[r].pc = "sc_post" /\ EmitSent(r, n, Members(reqs[r].chat))
ScPost(r, n) ==
  reqs[r].pc = "sc_post" /\ EmitSent(r, n, Members(reqs[r].chat) \ {reqs[r].user})

\* POST /api/chats/:chatId/block
StartBlock(r, u, c) ==
  /\ Free(r)
  /\ reqs' = [reqs EXCEPT ![r] = NewReq("bl", "bl_check", u, "-", c)]
  /\ UNCHANGED storeVars
  /\ quiet

BlCheck(r) ==
  /\ reqs[r].pc = "bl_check"
  /\ reqs' = IF NoMemberRow(reqs[r].chat, reqs[r].user)
             THEN Respond(r, 403) ELSE Goto(r, "bl_other")
  /\ UNCHANGED storeVars
  /\ quiet

BlOther(r) ==
  /\ reqs[r].pc = "bl_other"
  /\ reqs' = IF Members(reqs[r].chat) \ {reqs[r].user} = {}
             THEN Respond(r, 400) ELSE Goto(r, "bl_update")
  /\ UNCHANGED storeVars
  /\ quiet

BlUpdateMutant(r) ==
  /\ reqs[r].pc = "bl_update"
  /\ chat_members' = [chat_members EXCEPT ![reqs[r].chat] =
                        [u \in Users |-> IF IsMember(reqs[r].chat, u) /\ u # reqs[r].user
                                         THEN "blocked" ELSE @[u]]]
  /\ reqs' = Respond(r, 200)
  /\ UNCHANGED <<chats, messages, uuids>>
  /\ quiet

BlUpdate(r) ==
  /\ reqs[r].pc = "bl_update"
  /\ chat_members' = SetBlocked(reqs[r].chat, reqs[r].user, "blocked")
  /\ reqs' = Respond(r, 200)
  /\ UNCHANGED <<chats, messages, uuids>>
  /\ quiet

\* POST /api/chats/:chatId/messages/:messageId/read: publishEvent has no
\* await in it, so the handler is one step; it reads and writes no table.
MarkReadMutant(r, n, u, c, m) ==
  /\ Free(r)
  /\ Len(bus) < MaxBus
  /\ reqs' = [reqs EXCEPT ![r] =
                [NewReq("mr", "done", u, "-", c) EXCEPT !.msg = m, !.status = 200]]
  /\ \E ok \in BOOLEAN :
       /\ bus' = IF amqpChannel[n] /\ ok
                 THEN bus \o <<BusEvent("message.read", m, c, u), BusEvent("message.read", m, c, u)>>
                 ELSE bus
       /\ faults' = (faults \/ ~ok)
  /\ UNCHANGED <<storeVars, hubVars, clientVars, cache, procVars, wireVars, amqpChannel, tasks, typingCount, audience>>

MarkRead(r, n, u, c, m) ==
  /\ Free(r)
  /\ Len(bus) < MaxBus
  /\ reqs' = [reqs EXCEPT ![r] =
                [NewReq("mr", "done", u, "-", c) EXCEPT !.msg = m, !.status = 200]]
  /\ \E ok \in BOOLEAN :
       /\ PublishEvent(n, BusEvent("message.read", m, c, u), ok)
       /\ faults' = (faults \/ ~ok)
  /\ UNCHANGED <<storeVars, hubVars, clientVars, cache, procVars, wireVars, amqpChannel, tasks, typingCount, audience>>

\* POST /api/chats/:chatId/unblock
StartUnblock(r, u, c) ==
  /\ Free(r)
  /\ reqs' = [reqs EXCEPT ![r] = NewReq("ub", "ub_check", u, "-", c)]
  /\ UNCHANGED storeVars
  /\ quiet

UbCheck(r) ==
  /\ reqs[r].pc = "ub_check"
  /\ reqs' = IF NoMemberRow(reqs[r].chat, reqs[r].user)
             THEN Respond(r, 403) ELSE Goto(r, "ub_update")
  /\ UNCHANGED storeVars
  /\ quiet

UbUpdate(r) ==
  /\ reqs[r].pc = "ub_update"
  /\ chat_members' = SetBlocked(reqs[r].chat, reqs[r].user, "open")
  /\ reqs' = Respond(r, 200)
  /\ UNCHANGED <<chats, messages, uuids>>
  /\ quiet

\* ------------------------------------------------------------------- Hub
\* Calls a node's subscriber may have awaiting their reply; a connect or a
\* close that would send one more waits.
MaxCmds == 2

SessionsOf(n) == UNION {connectedClients[n][u] : u \in Users}
FreeSession(s) == \A n \in Nodes : s \notin SessionsOf(n)

idleStore == UNCHANGED <<storeVars, reqs>>

\* wss.on('connection'): register the session; on the user's first
\* session here, with pub/sub available, subscribeToUser sets the handler
\* and sends SUBSCRIBE.  (user.connected is published with a routing key
\* that chat_service_queue is not bound to.)  Sockets being
\* interchangeable, a user's new socket takes the user's lowest free k.
Connect(n, s, u) ==
  /\ s[1] = u
  /\ FreeSession(s)
  /\ \A k \in 1..(s[2] - 1) : ~FreeSession(<<u, k>>)
  /\ connectedClients' = [connectedClients EXCEPT ![n][u] = @ \cup {s}]
  /\ IF u \notin userSubscriptions[n] /\ isPubSubAvailable(n)
     THEN /\ Len(redisCmds[n]) < MaxCmds
          /\ userSubscriptions' = [userSubscriptions EXCEPT ![n] = @ \cup {u}]
          /\ channelHandlers' = [channelHandlers EXCEPT ![n] = @ \cup {u}]
          /\ redisCmds' = [redisCmds EXCEPT ![n] = Append(@, [op |-> "subscribe", u |-> u])]
     ELSE UNCHANGED <<userSubscriptions, channelHandlers, redisCmds>>
  /\ UNCHANGED <<redisSubs, pubsub, clientVars, cache, procVars, wireVars, busVars, ghostVars>>
  /\ idleStore

\* ws.on('close'): drop the session; when it was the user's last one here,
\* forget the user and, with pub/sub available, send UNSUBSCRIBE.
Close(n, s, u) ==
  /\ s \in connectedClients[n][u]
  /\ connectedClients' = [connectedClients EXCEPT ![n][u] = @ \ {s}]
  /\ frames' = [frames EXCEPT ![s] = <<>>]
  /\ IF connectedClients[n][u] = {s}
     THEN /\ userSubscriptions' = [userSubscriptions EXCEPT ![n] = @ \ {u}]
          /\ IF isPubSubAvailable(n)
             THEN /\ Len(redisCmds[n]) < MaxCmds
                  /\ redisCmds' = [redisCmds EXCEPT ![n] =
                                     Append(@, [op |-> "unsubscribe", u |-> u])]
             ELSE UNCHANGED redisCmds
     ELSE UNCHANGED <<userSubscriptions, redisCmds>>
  /\ audience' = audience \ {s}
  /\ UNCHANGED <<channelHandlers, redisSubs, pubsub, clientVars, cache, procVars, inbox, pubCount, busVars, faults>>
  /\ idleStore

\* The token of an upgrade request /ws?token=..: absent, one that
\* jwt.verify rejects, or one it accepts for `user`; "badurl" is a request
\* whose URL does not parse.
Tokens == [kind : {"missing", "invalid", "valid", "badurl"}, user : {"B"}]

UpgradeMutant(n, s, tok) ==
  /\ server[n].pc = "running"
  /\ IF tok.kind \in {"valid", "invalid"} THEN Connect(n, s, tok.user)
     ELSE /\ server' = [server EXCEPT ![n].refused = <<401>>]
          /\ UNCHANGED <<storeVars, reqs, hubVars, clientVars, cache, gateway,
                         wireVars, busVars, ghostVars>>

\* server.on('upgrade'): 401 and socket.destroy() without a token or with
\* one that jwt.verify rejects, socket.destroy() alone when the URL does
\* not parse; otherwise handleUpgrade and the connection handler.
Upgrade(n, s, tok) ==
  /\ server[n].pc = "running"
  /\ IF tok.kind = "valid" THEN Connect(n, s, tok.user)
     ELSE /\ server' = [server EXCEPT ![n].refused =
                          IF tok.kind = "badurl" THEN <<0>> ELSE <<401>>]
          /\ UNCHANGED <<storeVars, reqs, hubVars, clientVars, cache, gateway,
                         wireVars, busVars, ghostVars>>

\* gracefulShutdown(signal), one step per callback or await.
ShutdownUnchanged ==
  UNCHANGED <<storeVars, reqs, connectedClients, userSubscriptions, redisSubs, redisCmds,
              pubsub, clientVars, cache, gateway, wireVars, busVars, ghostVars>>

\* process.on('SIGTERM' | 'SIGINT'): server.close(callback)
Signal(n) ==
  /\ server[n].pc = "running"
  /\ server' = [server EXCEPT ![n].pc = "closing"]
  /\ UNCHANGED channelHandlers
  /\ ShutdownUnchanged

\* The callback of server.close runs once the server has no connection
\* left, a client's socket being one: closeRedisPubSub() clears the
\* handlers and awaits the quit of its clients.
HttpClosed(n) ==
  /\ server[n].pc = "closing"
  /\ \A u \in Users : connectedClients[n][u] = {}
  /\ server' = [server EXCEPT ![n].pc = "redis_quit"]
  /\ channelHandlers' = [channelHandlers EXCEPT ![n] = {}]
  /\ ShutdownUnchanged

\* closeRedisPubSub() has returned (it catches its errors)
RedisQuit(n) ==
  /\ server[n].pc = "redis_quit"
  /\ server' = [server EXCEPT ![n].pc = "cache_quit"]
  /\ UNCHANGED channelHandlers
  /\ ShutdownUnchanged

\* chatCache.client.quit() has returned or thrown: wss.close(callback) and
\* setTimeout(.., 10000)
CacheQuit(n) ==
  /\ server[n].pc = "cache_quit"
  /\ server' = [server EXCEPT ![n].pc = "wss_close", ![n].timer = TRUE]
  /\ UNCHANGED channelHandlers
  /\ ShutdownUnchanged

\* The callback of wss.close: process.exit(0)
WssClosed(n) ==
  /\ server[n].pc = "wss_close"
  /\ server' = [server EXCEPT ![n].pc = "exited", ![n].code = <<0>>]
  /\ UNCHANGED channelHandlers
  /\ ShutdownUnchanged

\* The timer: process.exit(1)
ForcedExit(n) ==
  /\ server[n].timer /\ server[n].pc # "exited"
  /\ server' = [server EXCEPT ![n].pc = "exited", ![n].code = <<1>>]
  /\ UNCHANGED channelHandlers
  /\ ShutdownUnchanged

\* The reply to the oldest pending call of node n's subscriber resolves its
\* await: after SUBSCRIBE nothing more happens; after UNSUBSCRIBE
\* unsubscribeFromUser deletes the channel's handler.
RedisReplyOk(n) ==
  /\ redisCmds[n] # <<>>
  /\ LET cmd == Head(redisCmds[n]) IN
       IF cmd.op = "subscribe"
       THEN /\ redisSubs' = [redisSubs EXCEPT ![n] = @ \cup {cmd.u}]
            /\ UNCHANGED channelHandlers
       ELSE /\ redisSubs' = [redisSubs EXCEPT ![n] = @ \ {cmd.u}]
            /\ channelHandlers' = [channelHandlers EXCEPT ![n] = @ \ {cmd.u}]
  /\ redisCmds' = [redisCmds EXCEPT ![n] = Tail(@)]
  /\ UNCHANGED <<connectedClients, userSubscriptions, pubsub, clientVars, cache, procVars, wireVars, busVars, ghostVars>>
  /\ idleStore

\* The call rejects instead: subscribeToUser's catch deletes the handler
\* (and swallows the error, so websocket.js never drops the user from
\* userSubscriptions); unsubscribeFromUser's catch only logs.
RedisReplyError(n) ==
  /\ redisCmds[n] # <<>>
  /\ LET cmd == Head(redisCmds[n]) IN
       channelHandlers' = IF cmd.op = "subscribe"
                          THEN [channelHandlers EXCEPT ![n] = @ \ {cmd.u}]
                          ELSE channelHandlers
  /\ redisCmds' = [redisCmds EXCEPT ![n] = Tail(@)]
  /\ faults' = TRUE
  /\ UNCHANGED <<connectedClients, userSubscriptions, redisSubs, pubsub, clientVars, cache, procVars, wireVars, busVars, audience>>
  /\ idleStore

\* The listener's guard: event.instanceId !== instanceId
FromOtherInstanceMutant(m, msg) == TRUE
FromOtherInstance(m, msg) == msg.instanceId # m

\* The handler websocket.js registers: broadcastToUserLocal(userId, event).
SubscribeHandlerMutant(m, u, msg) ==
  LET call == <<Call(u, msg.e, TRUE)>> IN
  /\ frames' = [s \in SessionIds |-> frames[s] \o LocalFrames(m, s, call)]
  /\ inbox' = [k \in Nodes |-> [v \in Users |->
                 (IF k = m /\ v = u THEN Tail(inbox[k][v]) ELSE inbox[k][v])
                 \o Published(m, k, v, call)]]
  /\ pubCount' = [k \in DOMAIN pubCount \cup CallKeys(call) |->
                    CountOf(k) + Attempts(call, k)]
SubscribeHandler(m, u, msg) ==
  /\ frames' = [s \in SessionIds |->
                  IF s \in connectedClients[m][u]
                  THEN Append(frames[s], Frame(msg.e, "pubsub", msg.instanceId))
                  ELSE frames[s]]
  /\ inbox' = [inbox EXCEPT ![m][u] = Tail(@)]
  /\ UNCHANGED pubCount

\* The listener subscribeToUser gives to subscriber.subscribe, run on the
\* next message Redis sent node m on ws:user:u.
InboxDeliver(m, u) ==
  /\ inbox[m][u] # <<>>
  /\ LET msg == Head(inbox[m][u]) IN
       IF FromOtherInstance(m, msg) /\ u \in channelHandlers[m]
       THEN SubscribeHandler(m, u, msg)
       ELSE /\ inbox' = [inbox EXCEPT ![m][u] = Tail(@)]
            /\ UNCHANGED <<frames, pubCount>>
  /\ UNCHANGED <<hubVars, clientVars, cache, procVars, busVars, ghostVars>>
  /\ idleStore

\* ws.on('message') with a TYPING_INDICATOR frame naming chat c, on a
\* session of user u: publishEvent('typing.indicator'), userId = u.
ClientTyping(n, s, u, c) ==
  /\ s \in connectedClients[n][u]
  /\ typingCount < MaxTyping
  /\ typingCount' = typingCount + 1
  /\ \E ok \in BOOLEAN :
       /\ PublishEvent(n, BusEvent("typing.indicator", typingCount + 1, c, u), ok)
       /\ faults' = (faults \/ ~ok)
  /\ audience' = {q \in SessionIds : q[1] # u /\ \E m \in Nodes :
                     q \in connectedClients[m][q[1]] /\ redisCmds[m] = <<>>}
  /\ UNCHANGED <<hubVars, clientVars, cache, procVars, wireVars, amqpChannel, tasks>>
  /\ idleStore

\* A frame a client sends: its type, and the chatId and the userId its
\* payload carries.
ClientFrames ==
  [type : {"TYPING_INDICATOR", "MESSAGE_SENT"}, chatId : ChatIds, userId : Callers]

\* ws.on('message') on session s of node n: a TYPING_INDICATOR frame is
\* published with the userId of the connection (request.userId); a frame
\* of any other type is parsed and dropped.
ClientFrameMutant(n, s, fr) ==
  /\ s \in connectedClients[n][s[1]]
  /\ IF fr.type = "TYPING_INDICATOR"
     THEN /\ typingCount < MaxTyping
          /\ typingCount' = typingCount + 1
          /\ \E ok \in BOOLEAN :
               /\ PublishEvent(n, BusEvent("typing.indicator", typingCount + 1, fr.chatId, fr.userId), ok)
               /\ faults' = (faults \/ ~ok)
          /\ audience' = {q \in SessionIds : q[1] # fr.userId /\ \E m \in Nodes :
                             q \in connectedClients[m][q[1]] /\ redisCmds[m] = <<>>}
          /\ UNCHANGED <<hubVars, clientVars, cache, procVars, wireVars, amqpChannel, tasks>>
          /\ idleStore
     ELSE UNCHANGED vars

ClientFrame(n, s, fr) ==
  /\ s \in connectedClients[n][s[1]]
  /\ IF fr.type = "TYPING_INDICATOR"
     THEN ClientTyping(n, s, s[1], fr.chatId)
     ELSE UNCHANGED vars

\* connectToBroker resolves: the channel is set and the consumer runs.
BrokerConnected(n) ==
  /\ ~amqpChannel[n]
  /\ amqpChannel' = [amqpChannel EXCEPT ![n] = TRUE]
  /\ UNCHANGED <<bus, tasks, typingCount, hubVars, clientVars, cache, procVars, wireVars, ghostVars>>
  /\ idleStore

\* channel.consume callback on node n: the broker hands it the next event
\* of the shared queue; handleEvent awaits the member lookup.
Consume(n) ==
  /\ amqpChannel[n]
  /\ bus # <<>>
  /\ tasks' = tasks \cup {[node |-> n, ev |-> Head(bus)]}
  /\ bus' = Tail(bus)
  /\ UNCHANGED <<amqpChannel, typingCount, hubVars, clientVars, cache, procVars, wireVars, ghostVars>>
  /\ idleStore

ConsumerEvent(ev) ==
  IF ev.type = "message.sent" THEN Event("MESSAGE_SENT", "msg", ev.id, "consumer")
  ELSE IF ev.type = "message.read" THEN Event("MESSAGE_READ", "read", ev.id, "consumer")
  ELSE Event("TYPING_INDICATOR", "typing", ev.id, "consumer")

\* handleMessageSent / handleTypingIndicator after the member lookup:
\* broadcastToUser for every member but the sender (the typist), then ack.
ConsumerTargetsMutant(ev) == Members(ev.chat)
ConsumerTargets(ev) ==
  IF ev.type = "message.read" THEN Members(ev.chat) ELSE Members(ev.chat) \ {ev.user}

ConsumerDeliver(t) ==
  /\ t \in tasks
  /\ \E calls \in Outcomes(ConsumerTargets(t.ev), <<ConsumerEvent(t.ev)>>) :
       /\ BroadcastToUser(t.node, calls)
       /\ faults' = (faults \/ AnyFailed(calls))
  /\ tasks' = tasks \ {t}
  /\ UNCHANGED <<amqpChannel, bus, typingCount, hubVars, clientVars, cache, procVars, audience>>
  /\ idleStore

\* The member lookup rejects: the handler's own catch logs it and the
\* consumer acks the event all the same.
ConsumerQueryFails(t) ==
  /\ t \in tasks
  /\ tasks' = tasks \ {t}
  /\ faults' = TRUE
  /\ UNCHANGED <<amqpChannel, bus, typingCount, hubVars, clientVars, cache, procVars, wireVars, audience>>
  /\ idleStore

\* ------------------------------------------------------- specifications
InitStoreEmpty ==
  /\ chats = [c \in ChatIds |-> "none"]
  /\ chat_members = [c \in ChatIds |-> [u \in Users |-> "absent"]]
  /\ messages = <<>>
  /\ uuids = 0

InitHubEmpty ==
  /\ connectedClients = [n \in Nodes |-> [u \in Users |-> {}]]
  /\ userSubscriptions = [n \in Nodes |-> {}]
  /\ channelHandlers = [n \in Nodes |-> {}]
  /\ redisSubs = [n \in Nodes |-> {}]
  /\ redisCmds = [n \in Nodes |-> <<>>]
  /\ inbox = [n \in Nodes |-> [u \in Users |-> <<>>]]
  /\ frames = [s \in SessionIds |-> <<>>]
  /\ bus = <<>>
  /\ tasks = {}
  /\ typingCount = 0
  /\ pubCount = <<>>
  /\ faults = FALSE
  /\ audience = {}

\* The Dispatcher over an empty database, on nodes with no session, no
\* broker channel and no pub/sub client.
Init ==
  /\ InitStoreEmpty
  /\ InitHubEmpty
  /\ reqs = [r \in OneAtATime |-> IdleReq]
  /\ pubsub = [n \in Nodes |-> FALSE]
  /\ InitClient
  /\ InitCache
  /\ InitProc
  /\ amqpChannel = [n \in Nodes |-> FALSE]

CreatePersonalChat ==
  \/ \E r \in DOMAIN reqs, u \in Callers, o \in Callers : StartCreatePersonalChat(r, u, o)
  \/ \E r \in DOMAIN reqs : CpFind(r)
  \/ \E r \in DOMAIN reqs : CpChat(r)
  \/ \E r \in DOMAIN reqs : CpM1(r)
  \/ \E r \in DOMAIN reqs : CpM2(r)

SendToUser ==
  \/ \E r \in DOMAIN reqs, u \in Callers, o \in Callers : StartSendToUser(r, u, o)
  \/ \E r \in DOMAIN reqs : SuBlocked(r)
  \/ \E r \in DOMAIN reqs : SuFind(r)
  \/ \E r \in DOMAIN reqs : SuChat(r)
  \/ \E r \in DOMAIN reqs : SuM1(r)
  \/ \E r \in DOMAIN reqs : SuM2(r)
  \/ \E r \in DOMAIN reqs : SuUpdate(r)
  \/ \E r \in DOMAIN reqs : SuInsert(r)
  \/ \E r \in DOMAIN reqs, n \in Nodes : SuPost(r, n)

SendToChat ==
  \/ \E r \in DOMAIN reqs, u \in Callers, c \in ChatIds : StartSendToChat(r, u, c)
  \/ \E r \in DOMAIN reqs : ScCheck(r)
  \/ \E r \in DOMAIN reqs : ScUpdate(r)
  \/ \E r \in DOMAIN reqs : ScInsert(r)
  \/ \E r \in DOMAIN reqs, n \in Nodes : ScPost(r, n)

Block ==
  \/ \E r \in DOMAIN reqs, u \in Callers, c \in ChatIds : StartBlock(r, u, c)
  \/ \E r \in DOMAIN reqs : BlCheck(r)
  \/ \E r \in DOMAIN reqs : BlOther(r)
  \/ \E r \in DOMAIN reqs : BlUpdate(r)

Unblock ==
  \/ \E r \in DOMAIN reqs, u \in Callers, c \in ChatIds : StartUnblock(r, u, c)
  \/ \E r \in DOMAIN reqs : UbCheck(r)
  \/ \E r \in DOMAIN reqs : UbUpdate(r)

StoreFailure == \E r \in DOMAIN reqs : QueryFails(r)

Next ==
  \/ CreatePersonalChat
  \/ SendToUser
  \/ SendToChat
  \/ Block
  \/ Unblock
  \/ StoreFailure

Spec == Init /\ [][Next]_vars

\* The Hub of two nodes with pub/sub and the broker up, over a database
\* that holds one chat with the members A, B and X.
InitStoreGroup ==
  /\ chats = [c \in ChatIds |-> IF c = 1 THEN "channel" ELSE "none"]
  /\ chat_members = [c \in ChatIds |-> [u \in Users |->
                       IF c = 1 THEN "open" ELSE "absent"]]
  /\ messages = <<>>
  /\ uuids = 1

\* A is connected to n1 and X to n2, both subscribed; B's sockets come
\* and go on either node.
InitHub ==
  /\ InitStoreGroup
  /\ connectedClients = [n \in Nodes |-> [u \in Users |->
       IF <<n, u>> \in {<<"n1", "A">>, <<"n2", "X">>} THEN {<<u, 1>>} ELSE {}]]
  /\ userSubscriptions = [n \in Nodes |-> IF n = "n1" THEN {"A"} ELSE {"X"}]
  /\ channelHandlers = userSubscriptions
  /\ redisSubs = userSubscriptions
  /\ redisCmds = [n \in Nodes |-> <<>>]
  /\ inbox = [n \in Nodes |-> [u \in Users |-> <<>>]]
  /\ frames = [s \in SessionIds |-> <<>>]
  /\ bus = <<>>
  /\ tasks = {}
  /\ typingCount = 0
  /\ pubCount = <<>>
  /\ faults = FALSE
  /\ audience = {}
  /\ reqs = <<>>
  /\ pubsub = [n \in Nodes |-> TRUE]
  /\ InitClient
  /\ InitCache
  /\ InitProc
  /\ amqpChannel = [n \in Nodes |-> TRUE]

Sessions ==
  \/ \E n \in Nodes, k \in 1..MaxSessions : Connect(n, <<"B", k>>, "B")
  \/ \E n \in Nodes, k \in 1..MaxSessions : Close(n, <<"B", k>>, "B")

Subscriber ==
  \/ \E n \in Nodes : RedisReplyOk(n)
  \/ \E n \in Nodes : RedisReplyError(n)
  \/ \E n \in Nodes, u \in Users : InboxDeliver(n, u)

Typing == ClientTyping("n1", <<"A", 1>>, "A", 1)

Consumer ==
  \/ \E n \in Nodes : Consume(n)
  \/ \E t \in tasks : ConsumerDeliver(t)
  \/ \E t \in tasks : ConsumerQueryFails(t)

NextHub == Sessions \/ Subscriber \/ Typing \/ Consumer

SpecHub == InitHub /\ [][NextHub]_vars

\* Two nodes with pub/sub and the broker up; A and B share the personal
\* chat 1; A is connected to n1 and B to n2, both subscribed.
InitStorePair ==
  /\ chats = [c \in ChatIds |-> IF c = 1 THEN "personal" ELSE "none"]
  /\ chat_members = [c \in ChatIds |-> [u \in Users |->
                       IF c = 1 /\ u \in Callers THEN "open" ELSE "absent"]]
  /\ messages = <<>>
  /\ uuids = 1

InitPair ==
  /\ InitStorePair
  /\ connectedClients = [n \in Nodes |-> [u \in Users |->
       IF <<n, u>> \in {<<"n1", "A">>, <<"n2", "B">>} THEN {<<u, 1>>} ELSE {}]]
  /\ userSubscriptions = [n \in Nodes |-> IF n = "n1" THEN {"A"} ELSE {"B"}]
  /\ channelHandlers = userSubscriptions
  /\ redisSubs = userSubscriptions
  /\ redisCmds = [n \in Nodes |-> <<>>]
  /\ inbox = [n \in Nodes |-> [u \in Users |-> <<>>]]
  /\ frames = [s \in SessionIds |-> <<>>]
  /\ bus = <<>>
  /\ tasks = {}
  /\ typingCount = 0
  /\ pubCount = <<>>
  /\ faults = FALSE
  /\ audience = {}
  /\ pubsub = [n \in Nodes |-> TRUE]
  /\ InitClient
  /\ InitCache
  /\ InitProc
  /\ amqpChannel = [n \in Nodes |-> TRUE]

Callbacks == \E n \in Nodes, u \in Users : InboxDeliver(n, u)

\* A sends to the chat, with two handlers in flight at once and a Store
\* that answers every query.
InitOrder == InitPair /\ reqs = [r \in TwoAtOnce |-> IdleReq]

SendsToChat ==
  \/ \E r \in DOMAIN reqs : StartSendToChat(r, "A", 1)
  \/ \E r \in DOMAIN reqs : ScCheck(r)
  \/ \E r \in DOMAIN reqs : ScUpdate(r)
  \/ \E r \in DOMAIN reqs : ScInsert(r)
  \/ \E r \in DOMAIN reqs, n \in Nodes : ScPost(r, n)

NextOrder == SendsToChat \/ Callbacks \/ Consumer

SpecOrder == InitOrder /\ [][NextOrder]_vars

\* A sends to B, one handler at a time.  The chat exists, so SendToUser
\* never takes its create branch here.
InitCross == InitPair /\ reqs = [r \in OneAtATime |-> IdleReq]

SendsToUser ==
  \/ \E r \in DOMAIN reqs : StartSendToUser(r, "A", "B")
  \/ \E r \in DOMAIN reqs : SuBlocked(r)
  \/ \E r \in DOMAIN reqs : SuFind(r)
  \/ \E r \in DOMAIN reqs : SuUpdate(r)
  \/ \E r \in DOMAIN reqs : SuInsert(r)
  \/ \E r \in DOMAIN reqs, n \in Nodes : SuPost(r, n)

NextCross == SendsToUser \/ StoreFailure \/ Callbacks \/ Consumer

SpecCross == InitCross /\ [][NextCross]_vars

\* The Dispatcher over an empty database, on two nodes with pub/sub up and
\* no session; n1 has its broker channel, n2's connection to the broker
\* failed at start.  Nothing consumes here: what the handlers emit stays in
\* the queue.
InitEmit ==
  /\ InitStoreEmpty
  /\ InitHubEmpty
  /\ reqs = [r \in OneAtATime |-> IdleReq]
  /\ pubsub = [n \in Nodes |-> TRUE]
  /\ InitClient
  /\ InitCache
  /\ InitProc
  /\ amqpChannel = [n \in Nodes |-> n = "n1"]

SpecEmit == InitEmit /\ [][Next]_vars

\* Two handlers in flight at once over an empty database and a Store that
\* answers every query: A and B create their personal chat and send to
\* each other, B blocks.
InitRace ==
  /\ InitStoreEmpty
  /\ InitHubEmpty
  /\ reqs = [r \in TwoAtOnce |-> IdleReq]
  /\ pubsub = [n \in Nodes |-> FALSE]
  /\ InitClient
  /\ InitCache
  /\ InitProc
  /\ amqpChannel = [n \in Nodes |-> FALSE]

CreatesChat ==
  \/ \E r \in DOMAIN reqs : StartCreatePersonalChat(r, "A", "B")
  \/ \E r \in DOMAIN reqs : CpFind(r)
  \/ \E r \in DOMAIN reqs : CpChat(r)
  \/ \E r \in DOMAIN reqs : CpM1(r)
  \/ \E r \in DOMAIN reqs : CpM2(r)

Blocks ==
  \/ \E r \in DOMAIN reqs, c \in ChatIds : StartBlock(r, "B", c)
  \/ \E r \in DOMAIN reqs : BlCheck(r)
  \/ \E r \in DOMAIN reqs : BlOther(r)
  \/ \E r \in DOMAIN reqs : BlUpdate(r)

SendsEitherWay ==
  \/ \E r \in DOMAIN reqs, u \in Callers : \E o \in Callers \ {u} : StartSendToUser(r, u, o)
  \/ \E r \in DOMAIN reqs : SuBlocked(r)
  \/ \E r \in DOMAIN reqs : SuFind(r)
  \/ \E r \in DOMAIN reqs : SuChat(r)
  \/ \E r \in DOMAIN reqs : SuM1(r)
  \/ \E r \in DOMAIN reqs : SuM2(r)
  \/ \E r \in DOMAIN reqs : SuUpdate(r)
  \/ \E r \in DOMAIN reqs : SuInsert(r)
  \/ \E r \in DOMAIN reqs, n \in Nodes : SuPost(r, n)

NextRace == CreatesChat \/ Blocks \/ SendsEitherWay

SpecRace == InitRace /\ [][NextRace]_vars

\* Block and Unblock, two requests at a time, over a database that holds a
\* channel with its creator A as the only member (routes.js:174-193) and
\* the personal chat of A and B, with either flag set or not.
InitStoreBlock ==
  /\ chats = [c \in ChatIds |-> IF c = 1 THEN "channel"
                                ELSE IF c = 2 THEN "personal" ELSE "none"]
  /\ \E fa \in {"open", "blocked"}, fb \in {"open", "blocked"} :
       chat_members = [c \in ChatIds |-> [u \in Users |->
                         IF c = 1 /\ u = "A" THEN "open"
                         ELSE IF c = 2 /\ u = "A" THEN fa
                         ELSE IF c = 2 /\ u = "B" THEN fb
                         ELSE "absent"]]
  /\ messages = <<>>
  /\ uuids = 2

InitBlock ==
  /\ InitStoreBlock
  /\ InitHubEmpty
  /\ reqs = [r \in TwoAtOnce |-> IdleReq]
  /\ pubsub = [n \in Nodes |-> FALSE]
  /\ InitClient
  /\ InitCache
  /\ InitProc
  /\ amqpChannel = [n \in Nodes |-> FALSE]

NextBlock ==
  \/ Block
  \/ Unblock
  \/ StoreFailure

SpecBlock == InitBlock /\ [][NextBlock]_vars

\* Read receipts for the chat of A and B (and for a chat that does not
\* exist), on two nodes whose broker channels are both set or both unset,
\* with the Consumer handling what reaches the queue.
InitRead ==
  /\ InitStorePair
  /\ InitHubEmpty
  /\ reqs = [r \in OneAtATime |-> IdleReq]
  /\ pubsub = [n \in Nodes |-> FALSE]
  /\ InitClient
  /\ InitCache
  /\ InitProc
  /\ \E up \in BOOLEAN : amqpChannel = [n \in Nodes |-> up]

\* The messageId path parameters of the read receipts.
MarkedIds == {1}

MarksRead ==
  \E r \in DOMAIN reqs, n \in Nodes, u \in Callers, c \in ChatIds, m \in MarkedIds :
    MarkRead(r, n, u, c, m)

NextRead == MarksRead \/ Consumer

SpecRead == InitRead /\ [][NextRead]_vars

\* broadcastToUser called for B and for A on either node, with B's two
\* sessions on n1 and A's session on n2, both users subscribed.
InitDeliver ==
  /\ InitStoreEmpty
  /\ connectedClients = [n \in Nodes |-> [u \in Users |->
       IF n = "n1" /\ u = "B" THEN {<<"B", 1>>, <<"B", 2>>}
       ELSE IF n = "n2" /\ u = "A" THEN {<<"A", 1>>} ELSE {}]]
  /\ userSubscriptions = [n \in Nodes |-> IF n = "n1" THEN {"B"} ELSE {"A"}]
  /\ channelHandlers = userSubscriptions
  /\ redisSubs = userSubscriptions
  /\ redisCmds = [n \in Nodes |-> <<>>]
  /\ inbox = [n \in Nodes |-> [u \in Users |-> <<>>]]
  /\ frames = [s \in SessionIds |-> <<>>]
  /\ bus = <<>>
  /\ tasks = {}
  /\ typingCount = 0
  /\ pubCount = <<>>
  /\ faults = FALSE
  /\ audience = {}
  /\ reqs = [r \in OneAtATime |-> IdleReq]
  /\ pubsub = [n \in Nodes |-> TRUE]
  /\ InitClient
  /\ InitCache
  /\ InitProc
  /\ amqpChannel = [n \in Nodes |-> FALSE]

DeliveredEvents == {Event("MESSAGE_SENT", "msg", 1, "direct")}

Delivers ==
  \E n \in Nodes, u \in Callers, e \in DeliveredEvents :
    \E bad \in SUBSET connectedClients[n][u], shut \in SUBSET connectedClients[n][u], ok \in BOOLEAN :
      DeliverToUser(n, u, e, bad, shut, ok)

NextDeliver == Delivers \/ Callbacks

SpecDeliver == InitDeliver /\ [][NextDeliver]_vars

\* A sends to B while B has a session on each node and A one on n1; Redis
\* is either up, with every connected user subscribed, or was down when
\* the nodes started, with nobody subscribed.
InitLocal ==
  /\ InitStorePair
  /\ connectedClients = [n \in Nodes |-> [u \in Users |->
       IF n = "n1" /\ u = "A" THEN {<<"A", 1>>}
       ELSE IF n = "n1" /\ u = "B" THEN {<<"B", 1>>}
       ELSE IF n = "n2" /\ u = "B" THEN {<<"B", 2>>} ELSE {}]]
  /\ \E up \in BOOLEAN :
       /\ pubsub = [n \in Nodes |-> up]
       /\ InitClient
       /\ InitCache
       /\ InitProc
       /\ userSubscriptions = [n \in Nodes |->
            IF up THEN {u \in Users : connectedClients[n][u] # {}} ELSE {}]
  /\ channelHandlers = userSubscriptions
  /\ redisSubs = userSubscriptions
  /\ redisCmds = [n \in Nodes |-> <<>>]
  /\ inbox = [n \in Nodes |-> [u \in Users |-> <<>>]]
  /\ frames = [s \in SessionIds |-> <<>>]
  /\ bus = <<>>
  /\ tasks = {}
  /\ typingCount = 0
  /\ pubCount = <<>>
  /\ faults = FALSE
  /\ audience = {}
  /\ amqpChannel = [n \in Nodes |-> FALSE]
  /\ reqs = [r \in OneAtATime |-> IdleReq]

NextLocal == SendsToUser \/ StoreFailure \/ Callbacks

SpecLocal == InitLocal /\ [][NextLocal]_vars

\* Frames arriving on any open session, of either type, for either chat
\* and with any userId in the payload, while B's sockets come and go on n2; the
\* Consumer and the subscriber callbacks carry what is published to the
\* other sessions.
InitFrames == InitHub

ReceivesFrame ==
  \E n \in Nodes, s \in SessionIds, fr \in ClientFrames : ClientFrame(n, s, fr)

SessionsOfB ==
  \/ \E k \in 1..MaxSessions : Connect("n2", <<"B", k>>, "B")
  \/ \E k \in 1..MaxSessions : Close("n2", <<"B", k>>, "B")

NextFrames == ReceivesFrame \/ SessionsOfB \/ Subscriber \/ Consumer

SpecFrames == InitFrames /\ [][NextFrames]_vars

\* The message history: chat 1 of A and B and chat 2 of A and X hold the
\* first n messages of a run in which every eighth message went to chat 2.
\* In a short history two messages may have been inserted at the same
\* instant, and the identifiers (random UUIDs) may fall in the insert order
\* or against it.
HistorySizes == {0, 1, 3, 120}
ShortHistory == 3
InitStoreHistory ==
  /\ chats = [c \in ChatIds |-> IF c \in {1, 2} THEN "personal" ELSE "none"]
  /\ chat_members = [c \in ChatIds |-> [u \in Users |->
       IF (c = 1 /\ u \in {"A", "B"}) \/ (c = 2 /\ u \in {"A", "X"})
       THEN "open" ELSE "absent"]]
  /\ \E n \in HistorySizes, tied \in BOOLEAN, falling \in BOOLEAN :
       /\ n > ShortHistory => ~tied /\ ~falling
       /\ messages = [i \in 1..n |->
                     [id |-> IF falling THEN n + 1 - i ELSE i,
                      chat |-> IF i % 8 = 0 THEN 2 ELSE 1, sender |-> "A",
                      op |-> "sc", wasMember |-> TRUE, wasBlocked |-> FALSE,
                      created_at |-> IF tied THEN (i + 1) \div 2 ELSE i]]
  /\ uuids = 2

InitHistory ==
  /\ InitStoreHistory
  /\ InitHubEmpty
  /\ InitClient
  /\ InitCache
  /\ InitProc
  /\ reqs = [r \in OneAtATime |-> IdleReq]
  /\ pubsub = [n \in Nodes |-> FALSE]
  /\ amqpChannel = [n \in Nodes |-> FALSE]

Limits == {<<>>, <<0>>, <<1>>, <<2>>, <<100>>, <<101>>, <<150>>}
Befores == {<<>>, <<1>>, <<2>>, <<3>>, <<4>>, <<121>>}

GetMessages ==
  \/ \E u \in Callers, c \in ChatIds, limit \in Limits, before \in Befores :
       StartGetMessages(u, c, limit, before)
  \/ GmCheck
  \/ GmCache
  \/ GmQuery
  \/ GmFails

SpecHistory == InitHistory /\ [][GetMessages]_vars

\* One client of A: it loads the history of a chat and adds the messages
\* of the frames it receives, over a Store of zero or three messages.
InitStoreClient ==
  /\ InitStoreHistory
  /\ Len(messages) \in {0, 3}

InitClientSide ==
  /\ InitStoreClient
  /\ InitHubEmpty
  /\ InitClient
  /\ InitCache
  /\ InitProc
  /\ reqs = [r \in OneAtATime |-> IdleReq]
  /\ pubsub = [n \in Nodes |-> FALSE]
  /\ amqpChannel = [n \in Nodes |-> FALSE]

ReceivedMessages == {Message(id, c) : id \in {1, 4}, c \in ChatIds}

NextClient ==
  \/ \E c \in ChatIds : LoadMessagesFetch("A", c)
  \/ GmCheck
  \/ GmCache
  \/ GmQuery
  \/ GmFails
  \/ LoadMessagesSet
  \/ \E message \in ReceivedMessages : AddMessage(message)

SpecClient == InitClientSide /\ [][NextClient]_vars

\* The GET handlers beside Block and Unblock of member A, over the
\* personal chat 1 of A and B, which holds one message, and the channel 2
\* of A alone.  The keys chat:1 and messages:1:50:latest are absent or
\* hold what the Store holds.
InitStoreCache ==
  /\ chats = [c \in ChatIds |-> IF c = 1 THEN "personal"
                                ELSE IF c = 2 THEN "channel" ELSE "none"]
  /\ \E fa \in {"open", "blocked"} :
       chat_members = [c \in ChatIds |-> [u \in Users |->
                         IF c = 1 /\ u = "A" THEN fa
                         ELSE IF c = 1 /\ u = "B" THEN "open"
                         ELSE IF c = 2 /\ u = "A" THEN "open"
                         ELSE "absent"]]
  /\ messages = <<[id |-> 1, chat |-> 1, sender |-> "A", op |-> "sc",
                   wasMember |-> TRUE, wasBlocked |-> FALSE, created_at |-> 1]>>
  /\ uuids = 2

InitCached ==
  /\ InitStoreCache
  /\ InitHubEmpty
  /\ InitClient
  /\ InitProc
  /\ reqs = [r \in OneAtATime |-> IdleReq]
  /\ pubsub = [n \in Nodes |-> FALSE]
  /\ amqpChannel = [n \in Nodes |-> FALSE]
  /\ \E chat1 \in {{}, {chat_members[1]}},
        latest \in {{}, {[key |-> CacheKey(1, <<>>, <<>>), rows |-> <<1>>]}} :
       cache = [chat |-> [c \in ChatIds |-> IF c = 1 THEN chat1 ELSE {}],
                list |-> [u \in Users |-> {}],
                messages |-> latest]

\* Who reads chat 1: its member A, and X, who is not in it.
Readers == {"A", "X"}

\* A sends a Block or an Unblock when no read is under way, so that a read
\* whose `since` is the request slot ran with no other request beside it.
BlocksChat ==
  \/ \E r \in DOMAIN reqs : history.pc \in {"idle", "done"} /\ StartBlock(r, "A", 1)
  \/ \E r \in DOMAIN reqs : BlCheck(r)
  \/ \E r \in DOMAIN reqs : BlOther(r)
  \/ \E r \in DOMAIN reqs : BlUpdate(r)
  \/ \E r \in DOMAIN reqs : history.pc \in {"idle", "done"} /\ StartUnblock(r, "A", 1)
  \/ \E r \in DOMAIN reqs : UbCheck(r)
  \/ \E r \in DOMAIN reqs : UbUpdate(r)

GetChat ==
  \/ \E u \in Readers : StartGetChat(u, 1)
  \/ GcCheck
  \/ GcCache
  \/ GcChat
  \/ GcMembers
  \/ GcSet
  \/ GcFails

GetChats ==
  \/ StartGetChats("A")
  \/ GlCache
  \/ GlChats
  \/ GlMembers
  \/ GlSet
  \/ GlFails

GetLatest ==
  \/ \E u \in Readers : StartGetMessages(u, 1, <<>>, <<>>)
  \/ GmCheck
  \/ GmCache
  \/ GmQuery
  \/ GmFails

NextCached == BlocksChat \/ StoreFailure \/ GetChat \/ GetChats \/ GetLatest \/ CacheExpires

SpecCached == InitCached /\ [][NextCached]_vars

\* Upgrade requests for B's sockets on either node, with every kind of
\* token, beside the closes and Redis's replies to the subscriber.
InitUpgrade == InitHub

Upgrades == \E n \in Nodes, k \in 1..MaxSessions, tok \in Tokens : Upgrade(n, <<"B", k>>, tok)
Closes == \E n \in Nodes, k \in 1..MaxSessions : Close(n, <<"B", k>>, "B")

NextUpgrade ==
  \/ Upgrades
  \/ Closes
  \/ \E n \in Nodes : RedisReplyOk(n)
  \/ \E n \in Nodes : RedisReplyError(n)

SpecUpgrade == InitUpgrade /\ [][NextUpgrade]_vars

\* A signal reaches n1 while sockets are open.  What the process does once
\* it can is sure to happen; that a client closes its socket is not.
InitShutdown == InitHub

Alive(n) == server[n].pc # "exited"

ClientsOfN1 ==
  \/ \E k \in 1..MaxSessions, tok \in Tokens : Upgrade("n1", <<"B", k>>, tok)
  \/ \E u \in Users, k \in 1..MaxSessions : Alive("n1") /\ Close("n1", <<u, k>>, u)
  \/ Alive("n1") /\ RedisReplyOk("n1")
  \/ Alive("n1") /\ RedisReplyError("n1")

Shutdown(n) ==
  \/ HttpClosed(n)
  \/ RedisQuit(n)
  \/ CacheQuit(n)
  \/ WssClosed(n)
  \/ ForcedExit(n)

NextShutdown == Signal("n1") \/ Shutdown("n1") \/ ClientsOfN1

SpecShutdown ==
  InitShutdown /\ [][NextShutdown]_vars /\ WF_vars(Shutdown("n1"))

\* Requests of one user at the gateway, two at a time.
InitLimiter ==
  /\ InitStoreEmpty
  /\ InitHubEmpty
  /\ InitClient
  /\ InitCache
  /\ server = [n \in Nodes |-> Running]
  /\ gateway = [NoGateway EXCEPT !.calls = [k \in TwoAtOnce |-> IdleCall]]
  /\ reqs = [r \in OneAtATime |-> IdleReq]
  /\ pubsub = [n \in Nodes |-> FALSE]
  /\ amqpChannel = [n \in Nodes |-> FALSE]

NextLimiter ==
  \/ \E k \in TwoAtOnce : RlStart(k)
  \/ \E k \in TwoAtOnce : RlRemove(k)
  \/ \E k \in TwoAtOnce : RlCard(k)
  \/ \E k \in TwoAtOnce : RlRange(k)
  \/ \E k \in TwoAtOnce : RlAdd(k)
  \/ \E k \in TwoAtOnce : RlExpire(k)
  \/ \E k \in TwoAtOnce : RlFails(k)
  \/ Tick

SpecLimiter == InitLimiter /\ [][NextLimiter]_vars

\* ---------------------------------------------------------------- claims
Quiescent == \A r \in DOMAIN reqs : Free(r)

\* C1: every personal chat has exactly two memberships, of two distinct
\* users, whenever no handler is in flight (and no Store call has failed).
C1_PersonalChatHasTwoMembers ==
  (Quiescent /\ ~faults) =>
    \A c \in ChatIds : chats[c] = "personal" => Cardinality(Members(c)) = 2

\* C2: a send never leaves the sender's blocked flag cleared without its
\* message stored, and the sender's row has blocked = false at the insert.
C2_ClearAndInsertAtomic ==
  /\ \A r \in DOMAIN reqs :
       (reqs[r].pc = "done" /\ reqs[r].cleared) => reqs[r].msg # 0
  /\ \A i \in 1..Len(messages) : ~messages[i].wasBlocked

\* C3: the sender of every stored message held a membership row in the
\* message's chat when the row was inserted.
C3_SenderIsMemberAtInsert ==
  \A i \in 1..Len(messages) : messages[i].wasMember

C3_Witness ==
  \E i, j \in 1..Len(messages) :
    /\ messages[i].op = "su" /\ messages[j].op = "sc"
    /\ messages[i].wasMember /\ messages[j].wasMember

\* The places of session s's frames that carry an event of this kind and id.
FramesOf(s, kind, id) ==
  {i \in 1..Len(frames[s]) : frames[s][i].e.kind = kind /\ frames[s][i].e.id = id}
FramesBy(s, kind, id, src) ==
  {i \in FramesOf(s, kind, id) : frames[s][i].e.src = src}
Min(S) == CHOOSE x \in S : \A y \in S : x <= y
OpenSessions == UNION {connectedClients[n][u] : n \in Nodes, u \in Users}
NodeOf(s) == CHOOSE n \in Nodes : s \in connectedClients[n][s[1]]
\* Nothing is on its way: no handler, no event, no callback, no reply.
Settled ==
  /\ Quiescent
  /\ bus = <<>> /\ tasks = {}
  /\ \A n \in Nodes : redisCmds[n] = <<>> /\ \A u \in Users : inbox[n][u] = <<>>

\* C4: a session that is written MESSAGE_SENT frames for two messages of one
\* chat is written the earlier-stored message's frame first.
C4_DeliveredInCommitOrder ==
  \A s \in SessionIds : \A i, j \in 1..Len(messages) :
    (/\ i < j
     /\ messages[i].chat = messages[j].chat
     /\ FramesOf(s, "msg", i) # {}
     /\ FramesOf(s, "msg", j) # {})
    => Min(FramesOf(s, "msg", i)) < Min(FramesOf(s, "msg", j))

\* C5: on a node with no subscribe or unsubscribe call in flight (and after
\* no failed call), the node holds the Redis subscription of ws:user:U with
\* a registered handler if and only if U has a session in its registry.
C5_SubscribedIffConnected ==
  \A n \in Nodes, u \in Users :
    (redisCmds[n] = <<>> /\ ~faults)
    => ((u \in redisSubs[n] /\ u \in channelHandlers[n])
          <=> connectedClients[n][u] # {})

\* C6: once U has no session on a node and no subscribe or unsubscribe call
\* of the node is in flight (so nothing more will happen for U), the node
\* holds no subscription for U: not in the registry, not in
\* userSubscriptions, not in the handler table, not at Redis.
C6_ReleasedAfterLastClose ==
  \A n \in Nodes, u \in Users :
    (connectedClients[n][u] = {} /\ redisCmds[n] = <<>>)
    => /\ u \notin userSubscriptions[n]
       /\ u \notin channelHandlers[n]
       /\ u \notin redisSubs[n]

\* C7: no session holds a frame that the pub/sub callback of its own node
\* wrote for an event that node itself published.
C7_NoLocalRedelivery ==
  \A s \in OpenSessions : \A i \in 1..Len(frames[s]) :
    frames[s][i].via = "pubsub" => frames[s][i].from # NodeOf(s)

\* The node X is on has broadcast the typing event to X (local write and a
\* publish that Redis returned to the node), and its callback has run.
C7_Witness ==
  /\ ~faults
  /\ \E k \in DOMAIN pubCount : k[2] = "X" /\ pubCount[k] = 1
  /\ inbox["n2"]["X"] = <<>>
  /\ \E i \in 1..Len(frames[<<"X", 1>>]) :
       frames[<<"X", 1>>][i].via = "local" /\ frames[<<"X", 1>>][i].from = "n2"

\* C8: one broadcastToUser(U, e) call makes at most one Redis publish, and
\* no session is written e more than once.
C8_OnePublishOneWrite ==
  /\ \A k \in DOMAIN pubCount : pubCount[k] <= 1
  /\ \A s \in SessionIds : \A i, j \in 1..Len(frames[s]) :
       frames[s][i].e = frames[s][j].e => i = j

\* A callback has written a published event to a session of another node.
C8_Witness ==
  \E s \in OpenSessions : \E i \in 1..Len(frames[s]) :
    /\ frames[s][i].via = "pubsub"
    /\ frames[s][i].from # NodeOf(s)
    /\ pubCount[<<frames[s][i].e, s[1]>>] = 1

\* C9 as stated: once a send from A to B has run to its end with no failed
\* call, B's session holds exactly one MESSAGE_SENT frame of the message and
\* A's session (on n1) holds none.
C9_ExactlyOneFrame ==
  (Settled /\ ~faults) =>
    \A i \in 1..Len(messages) :
      /\ Cardinality(FramesOf(<<"B", 1>>, "msg", i)) = 1
      /\ FramesOf(<<"A", 1>>, "msg", i) = {}

\* C9 as the code has it: B's session holds at most one MESSAGE_SENT frame of
\* the message from the handler's broadcast and at most one from the
\* Consumer's, exactly one of each once the send has run to its end with no
\* failed call; A's session holds none.
C9_OneFramePerPath ==
  \A i \in 1..Len(messages) :
    /\ Cardinality(FramesBy(<<"B", 1>>, "msg", i, "direct")) <= 1
    /\ Cardinality(FramesBy(<<"B", 1>>, "msg", i, "consumer")) <= 1
    /\ FramesOf(<<"A", 1>>, "msg", i) = {}
    /\ (Settled /\ ~faults) =>
         /\ Cardinality(FramesBy(<<"B", 1>>, "msg", i, "direct")) = 1
         /\ Cardinality(FramesBy(<<"B", 1>>, "msg", i, "consumer")) = 1

\* A send has run to its end: B's session holds both frames of the message.
C9_Witness ==
  /\ Settled /\ ~faults
  /\ \E i \in 1..Len(messages) :
       /\ messages[i].op = "su"
       /\ Cardinality(FramesOf(<<"B", 1>>, "msg", i)) = 2

\* C10: once A's typing frame has been handled to its end with no failed
\* call, every session of B and X that was open and settled when A typed,
\* and stayed open, holds exactly one TYPING_INDICATOR frame for it; no
\* session ever holds two, and A's session holds none.
C10_TypingReachesEachMemberOnce ==
  /\ \A s \in SessionIds : Cardinality(FramesOf(s, "typing", 1)) <= 1
  /\ FramesOf(<<"A", 1>>, "typing", 1) = {}
  /\ (typingCount = 1 /\ Settled /\ ~faults) =>
       \A s \in audience : Cardinality(FramesOf(s, "typing", 1)) = 1

C12_ReplyClearsBlock ==
  \A r \in DOMAIN reqs :
    (reqs[r].pc = "done" /\ ~faults) =>
      /\ (/\ reqs[r].op = "su" /\ reqs[r].user # reqs[r].other
          /\ \E c \in PersonalChatsOf(reqs[r].user, reqs[r].other) :
               Blocked(c, reqs[r].other))
         => reqs[r].status = 403
      /\ (/\ reqs[r].op = "sc" /\ chats[reqs[r].chat] = "personal"
          /\ IsMember(reqs[r].chat, reqs[r].user))
         => /\ reqs[r].status = 200
            /\ ~Blocked(reqs[r].chat, reqs[r].user)

\* C13: SendToUser treats the sender's own blocked row as SendToChat does:
\* neither gets past it, so neither ever clears a flag that was set.
C13_SendToUserAsSendToChat ==
  \A r \in DOMAIN reqs :
    reqs[r].op \in {"su", "sc"} => ~reqs[r].cleared

\* C15: SendToChat by a user with no row in the chat is answered 403 (500
\* when the lookup fails), and the step changes no table and emits nothing.
C15_NonMemberRejected ==
  [][\A r \in DOMAIN reqs :
       (/\ reqs[r].pc = "sc_check" /\ reqs'[r].pc # "sc_check"
        /\ ~IsMember(reqs[r].chat, reqs[r].user))
       => /\ reqs'[r].pc = "done" /\ reqs'[r].status \in {403, 500}
          /\ UNCHANGED <<storeVars, bus, inbox, frames, pubCount>>]_vars

\* A non-member's SendToChat has been answered 403.
C15_Witness ==
  \E r \in DOMAIN reqs :
    /\ reqs[r].pc = "done" /\ reqs[r].op = "sc" /\ reqs[r].status = 403
    /\ chats[reqs[r].chat] # "none"
    /\ ~IsMember(reqs[r].chat, reqs[r].user)

\* C14: SendToUser whose recipient's row is blocked in a personal chat the
\* two share is answered 403 at the blocked check, and the step changes no
\* table and emits nothing.
C14_BlockedByRecipient ==
  [][\A r \in DOMAIN reqs :
       (/\ reqs[r].pc = "su_blocked" /\ reqs'[r].pc # "su_blocked"
        /\ \E c \in PersonalChatsOf(reqs[r].user, reqs[r].other) :
             Blocked(c, reqs[r].other))
       => /\ reqs'[r].pc = "done" /\ reqs'[r].status = 403
          /\ UNCHANGED <<storeVars, bus, inbox, frames, pubCount>>]_vars

\* C16: every message.sent event in the queue and every MESSAGE_SENT event
\* handed to broadcastToUser, published or written to a session is for a
\* message already in the table; a send answered without a stored message
\* is not answered 200.
C16_NoEventBeforeCommit ==
  /\ \A i \in 1..Len(bus) :
       bus[i].type = "message.sent" => bus[i].id \in 1..Len(messages)
  /\ \A k \in DOMAIN pubCount :
       k[1].kind = "msg" => k[1].id \in 1..Len(messages)
  /\ \A n \in Nodes, u \in Users : \A i \in 1..Len(inbox[n][u]) :
       inbox[n][u][i].e.kind = "msg" => inbox[n][u][i].e.id \in 1..Len(messages)
  /\ \A s \in SessionIds : \A i \in 1..Len(frames[s]) :
       frames[s][i].e.kind = "msg" => frames[s][i].e.id \in 1..Len(messages)
  /\ \A r \in DOMAIN reqs :
       (reqs[r].pc = "done" /\ reqs[r].op \in {"su", "sc"} /\ reqs[r].msg = 0)
       => reqs[r].status # 200

\* One send has emitted its event, and a later one has failed before its
\* insert.
C16_Witness ==
  /\ bus # <<>>
  /\ pubCount # <<>>
  /\ \E r \in DOMAIN reqs :
       /\ reqs[r].pc = "done" /\ reqs[r].op \in {"su", "sc"}
       /\ reqs[r].msg = 0 /\ reqs[r].status = 500 /\ reqs[r].chat # 0

\* C17: the emit step of a send answers 200 with the stored message,
\* whatever becomes of its publishes, and leaves the message in the table.
C17_SuccessDespitePublishFailure ==
  [][\A r \in DOMAIN reqs :
       (reqs[r].pc \in {"su_post", "sc_post"} /\ pubCount' # pubCount)
       => /\ reqs'[r].pc = "done" /\ reqs'[r].status = 200
          /\ reqs'[r].msg = reqs[r].msg
          /\ reqs[r].msg \in 1..Len(messages)
          /\ messages' = messages]_vars

\* A send has been answered 200 although its event never reached the queue
\* and a publish has failed.
C17_Witness ==
  /\ faults
  /\ \E r \in DOMAIN reqs :
       /\ reqs[r].pc = "done" /\ reqs[r].op \in {"su", "sc"} /\ reqs[r].status = 200
       /\ reqs[r].msg \in 1..Len(messages)
       /\ \A i \in 1..Len(bus) : bus[i].id # reqs[r].msg

\* C18: broadcastToUser is called with a message's MESSAGE_SENT event only
\* for members of its chat other than the sender, and for each of them once
\* SendToChat has answered 200; no session of the sender holds a
\* MESSAGE_SENT frame of the sender's own message, from either path.
C18_FanOutExcludesSender ==
  /\ \A k \in DOMAIN pubCount :
       k[1].kind = "msg"
       => /\ k[2] # messages[k[1].id].sender
          /\ k[2] \in Members(messages[k[1].id].chat)
  /\ \A r \in DOMAIN reqs :
       (reqs[r].pc = "done" /\ reqs[r].op = "sc" /\ reqs[r].status = 200)
       => \A u \in Members(reqs[r].chat) \ {reqs[r].user} :
            <<Event("MESSAGE_SENT", "msg", reqs[r].msg, "direct"), u>> \in DOMAIN pubCount
  /\ \A i \in 1..Len(messages) : \A s \in SessionIds :
       s[1] = messages[i].sender => FramesOf(s, "msg", i) = {}

\* A SendToChat of A has been answered 200 and both paths have written its
\* message to B's session, while A's session is open.
C18_Witness ==
  /\ <<"A", 1>> \in connectedClients["n1"]["A"]
  /\ \E r \in DOMAIN reqs :
       /\ reqs[r].pc = "done" /\ reqs[r].op = "sc" /\ reqs[r].status = 200
       /\ FramesBy(<<"B", 1>>, "msg", reqs[r].msg, "direct") # {}
       /\ FramesBy(<<"B", 1>>, "msg", reqs[r].msg, "consumer") # {}

\* The personal chats that hold a membership row of u and one of o.
SharedPersonalChats(u, o) ==
  {c \in ChatIds : chats[c] = "personal" /\ {u, o} \subseteq Members(c)}

\* C19: with one CreatePersonalChat at a time, two distinct users never
\* share more than one personal chat, and a CreatePersonalChat of either
\* for the other that answers 200 returns that one chat.
C19_OnePersonalChatPerPair ==
  /\ \A u \in Users : \A o \in Users \ {u} : Cardinality(SharedPersonalChats(u, o)) <= 1
  /\ \A r \in DOMAIN reqs :
       (reqs[r].pc = "done" /\ reqs[r].op = "cp" /\ reqs[r].status = 200
          /\ reqs[r].user # reqs[r].other)
       => SharedPersonalChats(reqs[r].user, reqs[r].other) = {reqs[r].chat}

\* B's CreatePersonalChat for A has returned a chat that was there before
\* it: the chat already holds a message of A.
C19_Witness ==
  \E r \in DOMAIN reqs :
    /\ reqs[r].pc = "done" /\ reqs[r].op = "cp" /\ reqs[r].status = 200
    /\ reqs[r].user = "B" /\ reqs[r].other = "A"
    /\ Members(reqs[r].chat) = {"A", "B"}
    /\ \E i \in 1..Len(messages) :
         messages[i].chat = reqs[r].chat /\ messages[i].sender = "A"

\* C20: a SendToUser that answers 200 has stored its message in a personal
\* chat whose members are exactly the sender and the recipient, that chat
\* is the only personal chat the two share, and all messages stored by
\* SendToUser between the two are in one chat.
C20_SendToUserFindsOrCreatesOneChat ==
  /\ \A r \in DOMAIN reqs :
       (reqs[r].pc = "done" /\ reqs[r].op = "su" /\ reqs[r].status = 200)
       => /\ Members(reqs[r].chat) = {reqs[r].user, reqs[r].other}
          /\ SharedPersonalChats(reqs[r].user, reqs[r].other) = {reqs[r].chat}
          /\ reqs[r].msg \in 1..Len(messages)
          /\ messages[reqs[r].msg].chat = reqs[r].chat
  /\ \A i \in 1..Len(messages) : \A j \in 1..Len(messages) :
       (messages[i].op = "su" /\ messages[j].op = "su")
       => messages[i].chat = messages[j].chat

\* A SendToUser of A to B and one of B to A have both been stored, in the
\* one chat that exists.
C20_Witness ==
  /\ uuids = 1
  /\ \E r \in DOMAIN reqs :
       /\ reqs[r].pc = "done" /\ reqs[r].op = "su" /\ reqs[r].status = 200
       /\ \E i \in 1..Len(messages) : \E j \in 1..Len(messages) :
            /\ messages[i].op = "su" /\ messages[i].sender = "A"
            /\ messages[j].op = "su" /\ messages[j].sender = "B"
            /\ messages[i].chat = reqs[r].chat /\ messages[j].chat = reqs[r].chat

\* C21: a send that is refused (NotAMember, Blocked, BlockedByRecipient or
\* SelfSend: the handler answers without having stored a message, and not
\* because a Store call failed) is answered 403 and the step that answers
\* leaves the Store as it is.
C21_RefusalsAre403 ==
  [][\A r \in DOMAIN reqs :
       (reqs'[r].pc = "done" /\ reqs'[r] # reqs[r] /\ reqs'[r].op \in {"su", "sc"}
          /\ reqs'[r].status \notin {200, 500})
       => (reqs'[r].status = 403 /\ UNCHANGED storeVars)]_vars

\* The step in which a Block request is answered, not by the catch block.
BlockAnswered(r) ==
  /\ reqs'[r] # reqs[r]
  /\ reqs'[r].op = "bl" /\ reqs'[r].pc = "done" /\ reqs'[r].status # 500

\* C22 as stated: Block by a member sets the member's own flag, answers 200
\* and changes nothing else; Block by a non-member answers 403 and changes
\* nothing; no other step of a Block request writes to the Store.
C22_BlockByAnyMember ==
  [][\A r \in DOMAIN reqs :
       /\ BlockAnswered(r) =>
            IF IsMember(reqs[r].chat, reqs[r].user)
            THEN /\ reqs'[r].status = 200
                 /\ chat_members' = [chat_members EXCEPT ![reqs[r].chat][reqs[r].user] = "blocked"]
                 /\ UNCHANGED <<chats, messages>>
            ELSE reqs'[r].status = 403 /\ UNCHANGED storeVars
       /\ (reqs'[r] # reqs[r] /\ reqs'[r].op = "bl" /\ ~BlockAnswered(r))
            => UNCHANGED storeVars]_vars

\* C22, amended: the same, for a member of a chat that has another member;
\* Block by the only member of a chat answers 400 and changes nothing.
C22_BlockSetsOwnFlagOnly ==
  [][\A r \in DOMAIN reqs :
       /\ BlockAnswered(r) =>
            IF ~IsMember(reqs[r].chat, reqs[r].user)
            THEN reqs'[r].status = 403 /\ UNCHANGED storeVars
            ELSE IF Members(reqs[r].chat) = {reqs[r].user}
            THEN reqs'[r].status = 400 /\ UNCHANGED storeVars
            ELSE /\ reqs'[r].status = 200
                 /\ chat_members' = [chat_members EXCEPT ![reqs[r].chat][reqs[r].user] = "blocked"]
                 /\ UNCHANGED <<chats, messages>>
       /\ (reqs'[r] # reqs[r] /\ reqs'[r].op = "bl" /\ ~BlockAnswered(r))
            => UNCHANGED storeVars]_vars

\* Block of chat 2 by A has been answered 200 twice: A's flag is set and
\* B's is not.
C22_Witness ==
  /\ \A r \in DOMAIN reqs :
       /\ reqs[r].pc = "done" /\ reqs[r].op = "bl" /\ reqs[r].status = 200
       /\ reqs[r].user = "A" /\ reqs[r].chat = 2
  /\ Blocked(2, "A")
  /\ ~Blocked(2, "B")

\* The step in which MarkRead is answered.
ReadAnswered(r) == reqs'[r].op = "mr" /\ (reqs'[r] # reqs[r] \/ Len(bus') > Len(bus))
ReadEvent(r) == BusEvent("message.read", reqs'[r].msg, reqs'[r].chat, reqs'[r].user)

\* C23 as stated: MarkRead adds one message.read event to the queue and
\* leaves the Store as it is.
C23_MarkReadPublishesOne ==
  [][\A r \in DOMAIN reqs :
       ReadAnswered(r) => (bus' = Append(bus, ReadEvent(r)) /\ UNCHANGED storeVars)]_vars

\* C23, amended: MarkRead answers 200, leaves the Store as it is and adds
\* to the queue either nothing or one message.read event of its chat,
\* message and caller: nothing when the broker channel is not set, the one
\* event when it is set and no call has failed.
C23_MarkReadPublishesAtMostOne ==
  [][\A r \in DOMAIN reqs :
       ReadAnswered(r) =>
         /\ UNCHANGED storeVars
         /\ reqs'[r].pc = "done" /\ reqs'[r].status = 200
         /\ bus' \in {bus, Append(bus, ReadEvent(r))}
         /\ (\A n \in Nodes : ~amqpChannel[n]) => bus' = bus
         /\ ((\A n \in Nodes : amqpChannel[n]) /\ ~faults') => bus' = Append(bus, ReadEvent(r))]_vars

\* B's MarkRead of message 1 of chat 1 has been answered, its event is in
\* the queue and nothing has failed.
C23_Witness ==
  /\ ~faults
  /\ bus = <<BusEvent("message.read", 1, 1, "B")>>
  /\ \E r \in DOMAIN reqs :
       /\ reqs[r].op = "mr" /\ reqs[r].pc = "done" /\ reqs[r].status = 200
       /\ reqs[r].user = "B" /\ reqs[r].chat = 1 /\ reqs[r].msg = 1

\* C24: a consumer callback that ends without having called broadcastToUser
\* (its member lookup failed) has not acknowledged its event: the event is
\* in the queue again for redelivery.
C24_TransientFailureRedelivers ==
  [][\A t \in tasks :
       (t \notin tasks' /\ pubCount' = pubCount)
       => \E i \in 1..Len(bus') : bus'[i] = t.ev]_vars

\* C25: whichever sessions of u fail their write (bad) or are not open
\* (shut), broadcastToUser(u, e) on node n writes e to every other session
\* of u on n, makes its Redis publish when pub/sub is available (the event
\* reaches every node subscribed to u when the publish does not fail) and
\* leaves the registry as it is.
C25_WriteFailureIsLocalToSession ==
  [][\A n \in Nodes, u \in Callers, e \in DeliveredEvents, ok \in BOOLEAN :
       \A bad \in SUBSET connectedClients[n][u], shut \in SUBSET connectedClients[n][u] :
         DeliverToUser(n, u, e, bad, shut, ok) =>
           /\ \A s \in connectedClients[n][u] \ (bad \cup shut) :
                frames'[s] = Append(frames[s], Frame(e, "local", n))
           /\ isPubSubAvailable(n) =>
                /\ <<e, u>> \in DOMAIN pubCount'
                /\ pubCount'[<<e, u>>] = CountOf(<<e, u>>) + 1
           /\ (isPubSubAvailable(n) /\ ok) =>
                \A m \in Nodes : u \in redisSubs[m] =>
                  inbox'[m][u] = Append(inbox[m][u], [e |-> e, instanceId |-> n])
           /\ connectedClients' = connectedClients
           /\ userSubscriptions' = userSubscriptions]_vars

\* The write of message 1 to B's first session failed on n1: the second
\* session has the frame, the publish was made, both sessions are still
\* registered.
C25_Witness ==
  LET e == Event("MESSAGE_SENT", "msg", 1, "direct") IN
  /\ faults
  /\ frames[<<"B", 1>>] = <<>>
  /\ frames[<<"B", 2>>] = <<Frame(e, "local", "n1")>>
  /\ <<e, "B">> \in DOMAIN pubCount
  /\ inbox["n1"]["B"] # <<>>
  /\ connectedClients["n1"]["B"] = {<<"B", 1>>, <<"B", 2>>}

\* C26: whether or not pub/sub is available and whether or not the Redis
\* publishes fail, the step of SendToUser that emits on node n answers 200
\* for a message that is stored and stays stored, and writes MESSAGE_SENT
\* and the typing clear to every session the recipient has on n.
C26_LocalDeliveryWithoutPubSub ==
  [][\A r \in DOMAIN reqs, n \in Nodes :
       SuPost(r, n) =>
         /\ reqs'[r].pc = "done" /\ reqs'[r].status = 200
         /\ reqs[r].msg \in 1..Len(messages)
         /\ messages' = messages
         /\ \A s \in connectedClients[n][reqs[r].other] :
              frames'[s] = frames[s] \o
                <<Frame(Event("MESSAGE_SENT", "msg", reqs[r].msg, "direct"), "local", n),
                  Frame(Event("TYPING_INDICATOR", "clear", reqs[r].msg, "direct"), "local", n)>>]_vars

\* Pub/sub is unavailable; A's send was handled on n1 and answered 200:
\* B's session on n1 has the frame, B's session on n2 has nothing.
C26_Witness ==
  /\ ~pubsub["n1"]
  /\ \E r \in DOMAIN reqs :
       /\ reqs[r].pc = "done" /\ reqs[r].op = "su" /\ reqs[r].status = 200
       /\ reqs[r].msg \in 1..Len(messages)
       /\ FramesBy(<<"B", 1>>, "msg", reqs[r].msg, "direct") # {}
       /\ frames[<<"B", 2>>] = <<>>

\* C27: a client frame adds to the queue nothing, or one typing.indicator
\* event whose userId is the user of the session the frame came in on,
\* whatever userId the payload carries; a frame of another type changes
\* nothing at all.
C27_TypingIdentityFromSession ==
  [][\A n \in Nodes, u \in Users : \A s \in connectedClients[n][u], fr \in ClientFrames :
       ClientFrame(n, s, fr) =>
         /\ UNCHANGED <<storeVars, reqs, hubVars, clientVars, cache, procVars, wireVars, amqpChannel, tasks>>
         /\ \/ bus' = bus
            \/ /\ fr.type = "TYPING_INDICATOR"
               /\ bus' = Append(bus, BusEvent("typing.indicator", typingCount', fr.chatId, s[1]))
         /\ fr.type # "TYPING_INDICATOR" => UNCHANGED vars]_vars

\* X's typing frame has been published and delivered to A: the event the
\* Consumer delivered names typist X (A got it, X did not).
C27_Witness ==
  /\ typingCount = 1
  /\ \A i \in 1..Len(bus) : bus[i].user = "X"
  /\ FramesOf(<<"A", 1>>, "typing", 1) # {}
  /\ frames[<<"X", 1>>] = <<>>

\* C28: no list of the client store holds two entries with the same id,
\* and addMessage applied a second time with the same message changes
\* nothing.
C28_ClientDedup ==
  /\ \A c \in ChatIds : \A i \in 1..Len(clientStore.messages[c]) :
       \A j \in 1..Len(clientStore.messages[c]) :
         clientStore.messages[c][i].id = clientStore.messages[c][j].id => i = j
  /\ \A message \in ReceivedMessages :
       addMessage(addMessage(clientStore, message), message) = addMessage(clientStore, message)

\* The list of chat 1 was loaded (messages 1 to 3) and message 4 was added
\* after it; message 1, which came again, was not added.
C28_Witness ==
  /\ Len(clientStore.messages[1]) = 4
  /\ clientStore.messages[1][1].id = 1
  /\ clientStore.messages[1][4].id = 4
  /\ clientStore.lastMessages[1] = 4

\* The answer of the GET that is complete.
Answered == history.pc = "done" /\ history.status = 200
Requested == IF history.limit = <<>> THEN DefaultLimit ELSE history.limit[1]

\* C29: the answer holds at most min(limit, 100) messages (limit 50 when
\* absent), and none when limit = 0.
C29_LimitClamped ==
  Answered =>
    /\ Len(history.rows) <= (IF Requested < MaxLimit THEN Requested ELSE MaxLimit)
    /\ history.limit = <<0>> => history.rows = <<>>

\* The messages of the chat that are older than `before`.
Eligible ==
  {i \in 1..Len(messages) :
     /\ messages[i].chat = history.chat
     /\ history.before # <<>> => created_at(i) < history.before[1]}

\* C30: the answer lists, oldest first and none twice, messages of the
\* chat that are strictly older than `before`, at most `limit` of them,
\* and a message of the chat older than `before` is left out only when
\* `limit` messages that are not older than it are listed; so it is empty
\* when `before` is the chat's oldest created_at.
C30_BeforeIsStrictAndAscending ==
  Answered =>
    /\ \A k \in 1..Len(history.rows) : history.rows[k] \in Eligible
    /\ \A k \in 1..Len(history.rows) : \A l \in 1..Len(history.rows) :
         k < l => /\ history.rows[k] # history.rows[l]
                  /\ created_at(history.rows[k]) <= created_at(history.rows[l])
    /\ Len(history.rows) <= Requested
    /\ \A i \in Eligible :
         (\A k \in 1..Len(history.rows) : history.rows[k] # i)
         => /\ Len(history.rows) = Requested
            /\ \A k \in 1..Len(history.rows) :
                 created_at(history.rows[k]) >= created_at(i)
    /\ (/\ history.before # <<>>
        /\ \E i \in 1..Len(messages) : messages[i].chat = history.chat
        /\ \A i \in 1..Len(messages) :
             messages[i].chat = history.chat => history.before[1] <= created_at(i))
       => history.rows = <<>>

\* Of the 105 messages of chat 1, the two newest that are older than
\* message 4 were asked for: messages 2 and 3, in that order.
C30_Witness ==
  /\ Answered
  /\ Len(messages) > 4
  /\ history.chat = 1 /\ history.limit = <<2>> /\ history.before = <<4>>
  /\ history.rows = <<2, 3>>

\* C31: two messages of an answer that have the same created_at stand in
\* the order of their identifiers.
C31_TiesOrderedByIdentifier ==
  Answered =>
    \A k \in 1..Len(history.rows) : \A l \in 1..Len(history.rows) :
      (k < l /\ created_at(history.rows[k]) = created_at(history.rows[l]))
      => messages[history.rows[k]].id < messages[history.rows[l]].id

\* C32: a GET of a chat, or of its messages, by a user with no row in the
\* chat is answered 403 (500 when the lookup fails) and carries no chat
\* and no message, whatever the cache holds.
C32_NonMemberReadsNothing ==
  (/\ history.pc = "done" /\ history.op \in {"gc", "gm"}
   /\ ~IsMember(history.chat, history.user))
  => /\ history.status \in {403, 500}
     /\ history.data = {} /\ history.rows = <<>>

\* X, who is not in chat 1, asked for the chat while the keys chat:1 and
\* messages:1:50:latest were in the cache, and was answered 403.
C32_Witness ==
  /\ history.pc = "done" /\ history.op = "gc" /\ history.status = 403
  /\ history.user = "X" /\ history.chat = 1
  /\ cache.chat[1] # {}
  /\ cache.messages # {}

\* The blocked value that the answer of a GET gives for user u in chat c.
Reported(c, u) ==
  IF history.op = "gc" THEN {d[u] : d \in history.data}
  ELSE UNION {{row[u] : row \in d[c]} : d \in history.data}

\* C40: a GET of the chat, or of the chat list, that came in after a Block
\* or Unblock of a member had been answered 200, with no other request
\* since, reports that member's row with the new value.
C40_ReadsSeeNewBlockedValue ==
  \A r \in DOMAIN reqs :
    (/\ history.pc = "done" /\ history.status = 200 /\ history.op \in {"gc", "gl"}
     /\ history.since = <<reqs>>
     /\ reqs[r].pc = "done" /\ reqs[r].status = 200 /\ reqs[r].op \in {"bl", "ub"}
     /\ history.op = "gc" => history.chat = reqs[r].chat)
    => Reported(reqs[r].chat, reqs[r].user)
         = {IF reqs[r].op = "bl" THEN "blocked" ELSE "open"}

\* C33: an upgrade request without a token, or with one that does not
\* verify, is answered 401 and changes nothing of the Hub, the Bus or the
\* wire; and a step that adds a session to a registry, a user to
\* userSubscriptions or a call to the subscriber is an upgrade whose token
\* verified.
C33_RegisteredOnlyAfterValidation ==
  [][\A n \in Nodes :
       /\ \A k \in 1..MaxSessions, tok \in Tokens :
            (tok.kind \in {"missing", "invalid"} /\ Upgrade(n, <<"B", k>>, tok))
            => /\ server'[n].refused = <<401>>
               /\ UNCHANGED <<hubVars, wireVars, busVars>>
       /\ ((\E u \in Users : ~(connectedClients'[n][u] \subseteq connectedClients[n][u]))
           \/ ~(userSubscriptions'[n] \subseteq userSubscriptions[n])
           \/ (/\ Len(redisCmds'[n]) > Len(redisCmds[n])
               /\ redisCmds'[n][Len(redisCmds'[n])].op = "subscribe"))
          => \E k \in 1..MaxSessions, tok \in Tokens :
               tok.kind = "valid" /\ Upgrade(n, <<"B", k>>, tok)]_vars

\* An upgrade on n1 was refused with 401, and B, whose token verified, has
\* a session in n1's registry and a subscribe call on its way.
C33_Witness ==
  /\ server["n1"].refused = <<401>>
  /\ connectedClients["n1"]["B"] # {}
  /\ "B" \in userSubscriptions["n1"]
  /\ \E i \in 1..Len(redisCmds["n1"]) : redisCmds["n1"][i] = [op |-> "subscribe", u |-> "B"]

\* C34: once the signal has come, the process of n1 exits at last.
C34_ExitsAfterSignal ==
  (server["n1"].pc # "running") ~> (server["n1"].pc = "exited")

\* C36: when the calls of a node's subscriber have all been answered, none
\* of them with an error, a user who has a session on the node and is in
\* its userSubscriptions is subscribed at Redis and has the channel's
\* handler, so that an event another node publishes is written to the
\* session; also when the session came while the unsubscribe for the
\* user's last session was in flight.
C36_ResubscribedAfterRace ==
  \A n \in Nodes, u \in Users :
    (/\ connectedClients[n][u] # {} /\ u \in userSubscriptions[n]
     /\ redisCmds[n] = <<>> /\ ~faults)
    => (u \in redisSubs[n] /\ u \in channelHandlers[n])

\* C37: when no handler is in flight, at most one personal chat has A and
\* B, and nobody else, as its members.
C37_OneChatUnderConcurrency ==
  Quiescent =>
    Cardinality({c \in ChatIds : chats[c] = "personal" /\ Members(c) = {"A", "B"}}) <= 1

\* C38: a SendToChat or SendToUser that was answered with an error has
\* left no message in the Store.
C38_ErrorLeavesNoMessage ==
  \A r \in DOMAIN reqs :
    (reqs[r].pc = "done" /\ reqs[r].op \in {"su", "sc"} /\ reqs[r].status # 200)
    => \A i \in 1..Len(messages) : messages[i].id # reqs[r].msg

\* C39: when a subscribe call of a node fails, its user is not in the
\* node's userSubscriptions afterwards.
C39_FailedSubscribeForgotten ==
  [][\A n \in Nodes :
       (RedisReplyError(n) /\ Head(redisCmds[n]).op = "subscribe")
       => Head(redisCmds[n]).u \notin userSubscriptions'[n]]_vars

\* C35: of the requests the limiter has passed on, at most Limit have
\* their timestamps in one window of WindowMs.
C35_AtMostLimitPerWindow ==
  \A t \in 0..MaxTime :
    Cardinality({i \in 1..Len(gateway.allowed) :
                   gateway.allowed[i] > t - WindowMs /\ gateway.allowed[i] <= t}) <= Limit

====
